---- MODULE Spec2Model ----
(***************************************************************************)
(* ErrorRecoveryManager of the Material Icons panel: the bounded retry     *)
(* executor with exponential backoff (executeWithRetry), the circuit       *)
(* breaker (executeWithCircuitBreaker) and the registry they share         *)
(* (retryAttempts), as written in src/ui.js and duplicated in src/app.js.  *)
(*                                                                         *)
(* JavaScript runs the code between two awaits without interruption, so    *)
(* one action of this module is one such run: from the call or from the    *)
(* settling of the awaited promise up to the next await, return or throw.  *)
(* Calls that are suspended at an await may interleave.                    *)
(***************************************************************************)
EXTENDS Integers, Sequences, FiniteSets, TLC

VARIABLES
    retryAttempts,  \* the Map this.retryAttempts: key -> entry
    heap,           \* the circuit objects ever created, by reference (index)
    now,            \* Date.now(), in milliseconds
    rc,             \* the executeWithRetry calls, by slot
    bc,             \* the executeWithCircuitBreaker calls, by slot
    stats,          \* the object the last getRetryStats() returned
    started,        \* number of calls started so far
    runs,           \* per operation name, the run of failing breaker calls observed
    cleared         \* the names whose circuit resetStats removed while it was Open or
                    \* HalfOpen, until the next breaker call for the name

vars == <<retryAttempts, heap, now, rc, bc, stats, started, runs, cleared>>

-----------------------------------------------------------------------------
(* Bounds of the model: the calls made under each specification, the      *)
(* milliseconds the clock may tick after StartTime, the largest maxRetries *)
(* the callers pass.                                                       *)

MaxRetryCalls == 2
MaxBreakerCalls == 6
MaxOverlapCalls == 3
MaxTime == 3
StartTime == 5
MaxMixedCalls == 2
MaxRetriesPassed == 2
MaxBackoffRetries == 6
MaxPairCalls == 2
MaxRegistryCalls == 3
MaxSequenceCalls == 3
MaxAsyncCalls == 2
MaxUniformCalls == 4
MaxStatsCalls == 3
MaxFileCalls == 2
MaxFailingCalls == 3
MaxFairCalls == 2
MaxResetCalls == 3

RetrySlots == {1, 2}
BreakerSlots == {1, 2}

(* Program constants: the constructor's defaults and the breaker's defaults *)
DefaultMaxRetries == 3
DefaultBaseDelay == 1000
DefaultMaxDelay == 10000
DefaultBackoffMultiplier == 2
DefaultFailureThreshold == 5
DefaultResetTimeout == 30000

-----------------------------------------------------------------------------
(* Numbers. A delay is a rational <<numerator, denominator>> in lowest     *)
(* terms with a positive denominator: the multipliers the callers pass     *)
(* (1.5, 2) and the products the code forms with them are exact in the     *)
(* doubles of JavaScript within the bounds explored here.                  *)

RECURSIVE Gcd(_, _)
Gcd(a, b) == IF b = 0 THEN a ELSE Gcd(b, a % b)

Abs(a) == IF a < 0 THEN -a ELSE a

Rat(n, d) ==
    LET g == Gcd(Abs(n), d)
    IN  IF n = 0 THEN <<0, 1>> ELSE <<n \div g, d \div g>>

RatLess(a, b) == a[1] * b[2] < b[1] * a[2]

RatLeq(a, b) == a[1] * b[2] <= b[1] * a[2]

Floor(a) == a[1] \div a[2]

Max(a, b) == IF a < b THEN b ELSE a

(* Math.pow(x, e) for an integer exponent e >= 0 *)
RECURSIVE Pow(_, _)
Pow(x, e) == IF e <= 0 THEN 1 ELSE x * Pow(x, e - 1)

(* Math.min(a, b) *)
MathMin(a, b) == IF RatLess(b, a) THEN b ELSE a

-----------------------------------------------------------------------------
(* Values of the program *)

Names == {"op", "circuit_op"}       \* operation names the callers pass
Values == {"v1", "v2"}              \* what an action may resolve to
Messages == {"timeout", "not found"}  \* messages of the errors an action may throw

NoValue == "undefined"
NoMessage == "undefined"

(* An error object. RetryFailed is the Error executeWithRetry builds,      *)
(* CircuitOpen the one the breaker builds; ActionError is thrown by the    *)
(* caller's action, CallbackError by shouldRetry, TypeError by the engine. *)
Err(kind, name, attempts, message) ==
    [kind |-> kind, name |-> name, attempts |-> attempts, message |-> message]

NoError == Err("undefined", "", 0, NoMessage)

ActionError(m) == Err("ActionError", "", 0, m)

CallbackError == Err("CallbackError", "", 0, "shouldRetry failed")

TypeError == Err("TypeError", "", 0, "TypeError")

(* Entries of the Map: a number (a retry failure counter), a reference to  *)
(* a circuit object, or the string "[object Object]" followed by n ones    *)
(* (what object + 1 evaluates to).                                         *)
NumberEntry(n) == [kind |-> "number", n |-> n, ref |-> 0]

ObjectEntry(r) == [kind |-> "object", n |-> 0, ref |-> r]

StringEntry(n) == [kind |-> "string", n |-> n, ref |-> 0]

Undefined == [kind |-> "undefined", n |-> 0, ref |-> 0]

MapHas(map, key) == key \in DOMAIN map

MapGet(map, key) == IF MapHas(map, key) THEN map[key] ELSE Undefined

MapSet(map, key, entry) ==
    [k \in DOMAIN map \cup {key} |-> IF k = key THEN entry ELSE map[k]]

MapDelete(map, key) == [k \in DOMAIN map \ {key} |-> map[k]]

EmptyMap == [k \in {} |-> Undefined]

-----------------------------------------------------------------------------
(* executeWithRetry *)

(* One event of a call, kept in the call's log in the order it happened:   *)
(* "invoke" (operation(attempt) is called), "resolve" (it resolved, answer *)
(* is the value), "reject" (it rejected with message), "shouldRetry" (it   *)
(* was called and gave answer), "onRetry" (it was called with message,     *)
(* attempt and delay), "onRetrySettled", "wait" (this.delay(delay) was     *)
(* called), "timer" (its timer fired).                                     *)
Event(ev, attempt, message, delay, answer) ==
    [ev |-> ev, attempt |-> attempt, message |-> message, delay |-> delay,
     answer |-> answer]

ZeroDelay == <<0, 1>>

(* The options after the destructuring of executeWithRetry. shouldRetry is *)
(* "absent", "sync" (it returns a boolean or throws) or "async" (it        *)
(* returns a promise of a boolean); onRetry is present or not.             *)
Options(maxRetries, baseDelay, backoffMultiplier, maxDelay, onRetry, shouldRetry) ==
    [maxRetries |-> maxRetries, baseDelay |-> baseDelay,
     backoffMultiplier |-> backoffMultiplier, maxDelay |-> maxDelay,
     onRetry |-> onRetry, shouldRetry |-> shouldRetry]

(* const { maxRetries = this.maxRetries, ..., shouldRetry = null } = options: *)
(* passed is the object the caller passes, a record of the fields it sets. *)
Destructure(passed) ==
    Options(IF "maxRetries" \in DOMAIN passed THEN passed.maxRetries ELSE DefaultMaxRetries,
            IF "baseDelay" \in DOMAIN passed THEN passed.baseDelay ELSE DefaultBaseDelay,
            IF "backoffMultiplier" \in DOMAIN passed THEN passed.backoffMultiplier
            ELSE <<DefaultBackoffMultiplier, 1>>,
            IF "maxDelay" \in DOMAIN passed THEN passed.maxDelay ELSE DefaultMaxDelay,
            IF "onRetry" \in DOMAIN passed THEN passed.onRetry ELSE FALSE,
            IF "shouldRetry" \in DOMAIN passed THEN passed.shouldRetry ELSE "absent")

IdleRetry ==
    [pc |-> "idle", operationName |-> "", options |-> Options(0, 0, <<1, 1>>, 0, FALSE, "absent"),
     attempt |-> 0, lastError |-> NoError, delay |-> ZeroDelay, deadline |-> 0,
     log |-> <<>>, result |-> NoValue, thrown |-> NoError,
     before |-> Undefined, after |-> Undefined]

(* a loop without an upper limit in its head *)
LoopConditionAlways(attempt, maxRetries) == TRUE

(* a loop that ends one attempt early *)
LoopConditionOffByOne(attempt, maxRetries) == attempt <= maxRetries

(* for (let attempt = 1; attempt <= maxRetries + 1; attempt++) *)
LoopCondition(attempt, maxRetries) == attempt <= maxRetries + 1

(* an executor that ignores what shouldRetry says *)
StopsRetryingNever(shouldRetry, answer) == FALSE

(* a loop that never calls shouldRetry *)
ConsultsNever(shouldRetry) == FALSE

(* if (shouldRetry && ...): shouldRetry(error, attempt) is called whenever *)
(* the option is given; the check comes before the last-attempt check      *)
Consults(shouldRetry) == shouldRetry # "absent"

(* a shouldRetry whose exception is swallowed *)
PropagatesNever(shouldRetry, answer) == FALSE

(* shouldRetry(error, attempt) is called inside the catch block, outside   *)
(* any try: what it throws leaves executeWithRetry                         *)
Propagates(shouldRetry, answer) ==
    shouldRetry # "absent" /\ answer = "throws"

(* if (shouldRetry && !shouldRetry(error, attempt)) break;                 *)
(* answer is what shouldRetry returned: "true", "false", or a promise,     *)
(* "promise of true" or "promise of false" by what it resolves to: the     *)
(* promise is not awaited, and as an object it is never falsy              *)

StopsRetrying(shouldRetry, answer) ==
    shouldRetry # "absent" /\ answer = "false"

(* a check that lets one more failure through to the callback and the wait *)
IsLastAttemptLate(attempt, maxRetries) == attempt > maxRetries + 1

(* if (attempt > maxRetries) break; *)

IsLastAttempt(attempt, maxRetries) == attempt > maxRetries

(* a delay that is not capped at maxDelay *)
BackoffDelayNoCap(baseDelay, backoffMultiplier, attempt, maxDelay) ==
    Rat(baseDelay * Pow(backoffMultiplier[1], attempt - 1),
        Pow(backoffMultiplier[2], attempt - 1))

(* a delay whose exponent is attempt instead of attempt - 1 *)
BackoffDelayFromAttempt(baseDelay, backoffMultiplier, attempt, maxDelay) ==
    MathMin(Rat(baseDelay * Pow(backoffMultiplier[1], attempt),
                Pow(backoffMultiplier[2], attempt)),
            <<maxDelay, 1>>)

(* Math.min(baseDelay * Math.pow(backoffMultiplier, attempt - 1), maxDelay) *)
BackoffDelay(baseDelay, backoffMultiplier, attempt, maxDelay) ==
    MathMin(Rat(baseDelay * Pow(backoffMultiplier[1], attempt - 1),
                Pow(backoffMultiplier[2], attempt - 1)),
            <<maxDelay, 1>>)

(* a success that counts like a failure *)
ClearFailuresCounts(map, operationName) == MapSet(map, operationName, NumberEntry(1))

(* a success that leaves the counter in the Map *)
ClearFailuresKeep(map, operationName) == map

(* this.retryAttempts.delete(operationName) *)

ClearFailures(map, operationName) == MapDelete(map, operationName)

(* a failure tracked from a counter read as 0: the update of a call that  *)
(* gave up before is lost                                                  *)
TrackFailureOnce(map, operationName) == MapSet(map, operationName, NumberEntry(1))

(* this.retryAttempts.set(operationName,                                   *)
(*     (this.retryAttempts.get(operationName) || 0) + 1)                  *)
TrackFailure(map, operationName) ==
    LET old == MapGet(map, operationName)
    IN  MapSet(map, operationName,
               CASE old.kind = "number" -> NumberEntry(old.n + 1)
                 [] old.kind = "object" -> StringEntry(1)
                 [] old.kind = "string" -> StringEntry(old.n + 1)
                 [] OTHER -> NumberEntry(1))

(* new Error(`${operationName} failed after ${maxRetries + 1} attempts.    *)
(*            Last error: ${lastError.message}`); lastError is undefined   *)
(* when the loop body never ran, and reading its message throws.           *)
FinalError(c) ==
    IF c.lastError = NoError
    THEN TypeError
    ELSE Err("RetryFailed", c.operationName, c.options.maxRetries + 1,
             c.lastError.message)

(* an end of the loop that tracks the failure and returns to the caller *)
GiveUpSilently(s, c) ==
    /\ retryAttempts' = TrackFailure(retryAttempts, c.operationName)
    /\ rc' = [rc EXCEPT ![s] =
                [c EXCEPT !.pc = "returned",
                          !.after = MapGet(retryAttempts', c.operationName)]]

(* The code after the loop: track the failure, then throw *)

GiveUp(s, c) ==
    /\ retryAttempts' = TrackFailure(retryAttempts, c.operationName)
    /\ rc' = [rc EXCEPT ![s] =
                [c EXCEPT !.pc = "thrown", !.thrown = FinalError(c),
                          !.after = MapGet(retryAttempts', c.operationName)]]

(* const result = await operation(attempt): the action is invoked and the *)
(* call suspends                                                           *)
Invoked(c, attempt) ==
    [c EXCEPT !.pc = "awaitOperation", !.attempt = attempt,
              !.log = Append(@, Event("invoke", attempt, NoMessage, ZeroDelay, ""))]

(* The head of the loop with the given attempt number: either the action   *)
(* is invoked and awaited, or the loop is over.                            *)
EnterAttempt(s, c, attempt) ==
    IF LoopCondition(attempt, c.options.maxRetries)
    THEN /\ rc' = [rc EXCEPT ![s] = Invoked(c, attempt)]
         /\ UNCHANGED retryAttempts
    ELSE GiveUp(s, [c EXCEPT !.attempt = attempt])

(* the call is over *)
Finished(c) == c.pc \in {"returned", "thrown"}

(* A caller calls executeWithRetry(operationName, operation, options) *)
RetryCall(s, operationName, passed, bound) ==
    /\ rc[s].pc \in {"idle", "returned", "thrown"}
    /\ started < bound
    /\ started' = started + 1
    /\ EnterAttempt(s, [IdleRetry EXCEPT !.operationName = operationName,
                                         !.options = Destructure(passed),
                                         !.before = MapGet(retryAttempts, operationName)], 1)
    /\ UNCHANGED <<heap, now, bc, stats, runs, cleared>>

(* await operation(attempt) resolves with value: the try block completes *)
RetryOperationResolves(s, value) ==
    /\ rc[s].pc = "awaitOperation"
    /\ retryAttempts' = ClearFailures(retryAttempts, rc[s].operationName)
    /\ rc' = [rc EXCEPT ![s].pc = "returned", ![s].result = value,
                        ![s].log = Append(@, Event("resolve", rc[s].attempt, NoMessage, ZeroDelay, value)),
                        ![s].after = MapGet(retryAttempts', rc[s].operationName)]
    /\ UNCHANGED <<heap, now, bc, stats, started, runs, cleared>>

(* setTimeout(resolve, ms): the timer is due floor(ms) after now *)
Deadline(ms) == now + Max(0, Floor(ms))

(* a wait of baseDelay whatever delay was computed and passed to onRetry *)
StartWaitOfBaseDelay(c) ==
    [c EXCEPT !.pc = "awaitDelay", !.deadline = now + c.options.baseDelay,
              !.log = Append(@, Event("wait", c.attempt, NoMessage, <<c.options.baseDelay, 1>>, ""))]

(* await this.delay(delay) starts *)
StartWait(c) ==
    [c EXCEPT !.pc = "awaitDelay", !.deadline = Deadline(c.delay),
              !.log = Append(@, Event("wait", c.attempt, NoMessage, c.delay, ""))]

(* await operation(attempt) rejects with an error of the given message:    *)
(* the catch block runs up to its first await, break or throw. answer is   *)
(* what shouldRetry does when it is called: it returns "true" or "false",  *)
(* it returns a promise of one of them, or it "throws".                    *)
RetryOperationRejects(s, message, answer) ==
    LET c0 == rc[s]
        asked == Consults(c0.options.shouldRetry)
        c1 == [c0 EXCEPT !.lastError = ActionError(message),
                         !.log = Append(@, Event("reject", c0.attempt, message, ZeroDelay, ""))]
        c2 == IF asked
              THEN [c1 EXCEPT !.log = Append(@, Event("shouldRetry", c0.attempt, message, ZeroDelay, answer))]
              ELSE c1
        delay == BackoffDelay(c0.options.baseDelay, c0.options.backoffMultiplier,
                              c0.attempt, c0.options.maxDelay)
        c3 == [c2 EXCEPT !.delay = delay]
    IN  /\ c0.pc = "awaitOperation"
        /\ answer \in CASE c0.options.shouldRetry = "absent" -> {"none"}
                        [] c0.options.shouldRetry = "sync" -> {"true", "false", "throws"}
                        [] OTHER -> {"promise of true", "promise of false"}
        /\ IF Propagates(c0.options.shouldRetry, answer)
           THEN /\ rc' = [rc EXCEPT ![s] = [c2 EXCEPT !.pc = "thrown", !.thrown = CallbackError,
                                                      !.after = MapGet(retryAttempts, c0.operationName)]]
                /\ UNCHANGED retryAttempts
           ELSE IF StopsRetrying(c0.options.shouldRetry, answer)
           THEN GiveUp(s, c2)
           ELSE IF IsLastAttempt(c0.attempt, c0.options.maxRetries)
           THEN GiveUp(s, c2)
           ELSE IF c0.options.onRetry
           THEN /\ rc' = [rc EXCEPT ![s] =
                            [c3 EXCEPT !.pc = "awaitOnRetry",
                                       !.log = Append(@, Event("onRetry", c0.attempt, message, delay, ""))]]
                /\ UNCHANGED retryAttempts
           ELSE /\ rc' = [rc EXCEPT ![s] = StartWait(c3)]
                /\ UNCHANGED retryAttempts
        /\ UNCHANGED <<heap, now, bc, stats, started, runs, cleared>>

(* a call that lets a rejection of onRetry out to its caller *)
RetryOnRetrySettlesPropagates(s, ok) ==
    /\ rc[s].pc = "awaitOnRetry"
    /\ rc' = [rc EXCEPT ![s] =
                LET c == [rc[s] EXCEPT !.log = Append(@, Event("onRetrySettled", rc[s].attempt, NoMessage,
                                                               ZeroDelay, IF ok THEN "resolved" ELSE "rejected"))]
                IN  IF ok THEN StartWait(c)
                    ELSE [c EXCEPT !.pc = "thrown", !.thrown = CallbackError,
                                   !.after = MapGet(retryAttempts, c.operationName)]]
    /\ UNCHANGED <<retryAttempts, heap, now, bc, stats, started, runs, cleared>>

(* await onRetry(error, attempt, delay) settles; a rejection is caught and *)
(* logged. Either way the wait starts.                                     *)
RetryOnRetrySettles(s, ok) ==
    /\ rc[s].pc = "awaitOnRetry"
    /\ rc' = [rc EXCEPT ![s] =
                StartWait([rc[s] EXCEPT !.log = Append(@, Event("onRetrySettled", rc[s].attempt, NoMessage,
                                                                ZeroDelay, IF ok THEN "resolved" ELSE "rejected"))])]
    /\ UNCHANGED <<retryAttempts, heap, now, bc, stats, started, runs, cleared>>

(* a timer that fires at once, before it is due *)
RetryTimerFiresEarly(s) ==
    /\ rc[s].pc = "awaitDelay"
    /\ now' = now
    /\ EnterAttempt(s, [rc[s] EXCEPT !.log = Append(@, Event("timer", rc[s].attempt, NoMessage,
                                                          rc[s].delay, ""))],
                    rc[s].attempt + 1)
    /\ UNCHANGED <<heap, bc, stats, started, runs, cleared>>

(* The timer of this.delay(delay) fires, not before it is due and not      *)
(* before a timer that is due earlier; attempt++ and the loop goes on.     *)
RetryTimerFires(s) ==
    /\ rc[s].pc = "awaitDelay"
    /\ \A t \in RetrySlots : rc[t].pc = "awaitDelay" => rc[s].deadline <= rc[t].deadline
    /\ now' = Max(now, rc[s].deadline)
    /\ EnterAttempt(s, [rc[s] EXCEPT !.log = Append(@, Event("timer", rc[s].attempt, NoMessage,
                                                          rc[s].delay, ""))],
                    rc[s].attempt + 1)
    /\ UNCHANGED <<heap, bc, stats, started, runs, cleared>>

-----------------------------------------------------------------------------
(* executeWithCircuitBreaker *)

(* A circuit object *)
Circuit(state, failureCount, lastFailureTime, lastSuccessTime) ==
    [state |-> state, failureCount |-> failureCount,
     lastFailureTime |-> lastFailureTime, lastSuccessTime |-> lastSuccessTime]

(* what the properties of a primitive (a number, a string) read as *)
NoCircuit == Circuit("undefined", 0, 0, 0)

(* the object an entry refers to *)
Deref(h, entry) == IF entry.kind = "object" THEN h[entry.ref] ELSE NoCircuit

(* a circuit key that is the operation name itself *)
CircuitKeyBare(operationName) == operationName

(* const circuitKey = `circuit_${operationName}` *)

CircuitKey(operationName) == "circuit_" \o operationName

(* const { failureThreshold = 5, resetTimeout = 30000 } = options *)
DestructureBreaker(passed) ==
    [failureThreshold |-> IF "failureThreshold" \in DOMAIN passed THEN passed.failureThreshold
                          ELSE DefaultFailureThreshold,
     resetTimeout |-> IF "resetTimeout" \in DOMAIN passed THEN passed.resetTimeout
                      ELSE DefaultResetTimeout]

(* a lookup that resets the circuit it finds *)
GetCircuitStateHeapResets(map, h, circuitKey) ==
    IF ~MapHas(map, circuitKey) THEN Append(h, Circuit("closed", 0, 0, now))
    ELSE IF MapGet(map, circuitKey).kind = "object"
    THEN [h EXCEPT ![MapGet(map, circuitKey).ref] = Circuit("closed", 0, 0, now)]
    ELSE h

(* getCircuitState(circuitKey): the Map and the heap after the call; the   *)
(* entry it returns is MapGet of that Map.                                 *)
GetCircuitStateHeap(map, h, circuitKey) ==
    IF MapHas(map, circuitKey) THEN h ELSE Append(h, Circuit("closed", 0, 0, now))

GetCircuitStateMap(map, h, circuitKey) ==
    IF MapHas(map, circuitKey) THEN map ELSE MapSet(map, circuitKey, ObjectEntry(Len(h) + 1))

(* if (circuit.state === 'open') *)
IsOpen(circuit) == circuit.state = "open"

(* a comparison that still rejects when exactly resetTimeout has elapsed *)
StillOpenInclusive(circuit, resetTimeout) == now - circuit.lastFailureTime <= resetTimeout

(* if (Date.now() - circuit.lastFailureTime < resetTimeout) throw *)

StillOpen(circuit, resetTimeout) == now - circuit.lastFailureTime < resetTimeout

(* new Error(`Circuit breaker is open for ${operationName}. Try again later.`) *)
CircuitOpenError(operationName) == Err("CircuitOpen", operationName, 0, "Circuit breaker is open")

(* a success that resets failureCount and leaves the state as it is *)
OnSuccessKeepsState(circuit) == [circuit EXCEPT !.failureCount = 0, !.lastSuccessTime = now]

(* a success that resets failureCount only when it is the trial of a      *)
(* HalfOpen circuit                                                        *)
OnSuccessOfTrialOnly(circuit) ==
    [circuit EXCEPT !.state = "closed", !.lastSuccessTime = now,
                    !.failureCount = IF circuit.state = "half-open" THEN 0 ELSE @]

(* a success that does not reset failureCount *)
OnSuccessKeepCount(circuit) == [circuit EXCEPT !.state = "closed", !.lastSuccessTime = now]

(* circuit.state = 'closed'; circuit.failureCount = 0;                     *)
(* circuit.lastSuccessTime = Date.now()                                    *)

OnSuccess(circuit) ==
    [circuit EXCEPT !.state = "closed", !.failureCount = 0, !.lastSuccessTime = now]

(* a failure that opens the circuit whatever failureCount is *)
OnFailureAlwaysOpens(circuit, failureThreshold) ==
    [circuit EXCEPT !.failureCount = @ + 1, !.lastFailureTime = now, !.state = "open"]

(* a failure that opens the circuit only above the threshold *)
OnFailureStrict(circuit, failureThreshold) ==
    [circuit EXCEPT !.failureCount = @ + 1, !.lastFailureTime = now,
                    !.state = IF circuit.failureCount + 1 > failureThreshold THEN "open" ELSE @]

(* circuit.failureCount++; circuit.lastFailureTime = Date.now();           *)
(* if (circuit.failureCount >= failureThreshold) circuit.state = 'open'    *)

OnFailure(circuit, failureThreshold) ==
    [circuit EXCEPT !.failureCount = @ + 1, !.lastFailureTime = now,
                    !.state = IF circuit.failureCount + 1 >= failureThreshold THEN "open" ELSE @]

(* A breaker call. found, left and final are the circuit as the call found *)
(* it, as it left it when it suspended or threw, and as it left it when    *)
(* the action had settled; calledAt and settledAt are the times of these,  *)
(* and run is the run of failing calls that preceded the call.             *)
IdleBreaker ==
    [pc |-> "idle", operationName |-> "",
     options |-> [failureThreshold |-> 0, resetTimeout |-> 0],
     circuit |-> Undefined, invoked |-> 0, resolved |-> NoValue,
     result |-> NoValue, thrown |-> NoError,
     found |-> NoCircuit, left |-> NoCircuit, final |-> NoCircuit,
     calledAt |-> 0, settledAt |-> 0, run |-> [valid |-> FALSE, len |-> 0, failureThreshold |-> 0]]

(* The run of failing calls observed for an operation name: the last len   *)
(* finished calls of the name invoked their action and it failed, each was *)
(* made with this failureThreshold and while no other call of the name was *)
(* pending, and the first of them found the circuit Closed with            *)
(* failureCount 0.                                                         *)
NoRun == [valid |-> FALSE, len |-> 0, failureThreshold |-> 0]

PendingBreaker(operationName) ==
    {t \in DOMAIN bc : bc[t].pc = "awaitOperation" /\ bc[t].operationName = operationName}

RunAtCall(run, s, operationName, found, failureThreshold) ==
    IF PendingBreaker(operationName) \ {s} # {} THEN NoRun
    ELSE IF found.state = "closed" /\ found.failureCount = 0
    THEN [valid |-> TRUE, len |-> 0, failureThreshold |-> failureThreshold]
    ELSE IF run.valid /\ run.failureThreshold = failureThreshold /\ found.state # "open"
    THEN run
    ELSE NoRun

(* a breaker whose rejections count as failures: a rejected call moves     *)
(* lastFailureTime of the circuit to the time of the rejection             *)
BreakerCallRejectionCounts(s, operationName, passed, bound) ==
    LET options == DestructureBreaker(passed)
        circuitKey == CircuitKey(operationName)
        heap1 == GetCircuitStateHeap(retryAttempts, heap, circuitKey)
        map1 == GetCircuitStateMap(retryAttempts, heap, circuitKey)
        circuit == MapGet(map1, circuitKey)
        found == Deref(heap1, circuit)
        c == [IdleBreaker EXCEPT !.operationName = operationName, !.options = options,
                                 !.circuit = circuit, !.found = found, !.calledAt = now,
                                 !.run = runs[operationName]]
    IN  /\ bc[s].pc \in {"idle", "returned", "thrown"}
        /\ started < bound
        /\ started' = started + 1
        /\ retryAttempts' = map1
        /\ runs' = [runs EXCEPT ![operationName] =
                       RunAtCall(@, s, operationName, found, options.failureThreshold)]
        /\ IF IsOpen(found) /\ StillOpen(found, options.resetTimeout)
           THEN /\ heap' = [heap1 EXCEPT ![circuit.ref].lastFailureTime = now]
                /\ bc' = [bc EXCEPT ![s] =
                             [c EXCEPT !.pc = "thrown", !.thrown = CircuitOpenError(operationName),
                                       !.left = found]]
           ELSE /\ heap' = IF IsOpen(found)
                           THEN [heap1 EXCEPT ![circuit.ref].state = "half-open"]
                           ELSE heap1
                /\ bc' = [bc EXCEPT ![s] =
                             [c EXCEPT !.pc = "awaitOperation", !.invoked = 1,
                                       !.left = Deref(heap', circuit)]]
        /\ cleared' = cleared \ {operationName}
        /\ UNCHANGED <<now, rc, stats>>

(* A caller calls executeWithCircuitBreaker(operationName, operation, options) *)
BreakerCall(s, operationName, passed, bound) ==
    LET options == DestructureBreaker(passed)
        circuitKey == CircuitKey(operationName)
        heap1 == GetCircuitStateHeap(retryAttempts, heap, circuitKey)
        map1 == GetCircuitStateMap(retryAttempts, heap, circuitKey)
        circuit == MapGet(map1, circuitKey)
        found == Deref(heap1, circuit)
        c == [IdleBreaker EXCEPT !.operationName = operationName, !.options = options,
                                 !.circuit = circuit, !.found = found, !.calledAt = now,
                                 !.run = runs[operationName]]
    IN  /\ bc[s].pc \in {"idle", "returned", "thrown"}
        /\ started < bound
        /\ started' = started + 1
        /\ retryAttempts' = map1
        /\ runs' = [runs EXCEPT ![operationName] =
                       RunAtCall(@, s, operationName, found, options.failureThreshold)]
        /\ IF IsOpen(found) /\ StillOpen(found, options.resetTimeout)
           THEN /\ heap' = heap1
                /\ bc' = [bc EXCEPT ![s] =
                             [c EXCEPT !.pc = "thrown", !.thrown = CircuitOpenError(operationName),
                                       !.left = found]]
           ELSE /\ heap' = IF IsOpen(found)
                           THEN [heap1 EXCEPT ![circuit.ref].state = "half-open"]
                           ELSE heap1
                /\ bc' = [bc EXCEPT ![s] =
                             [c EXCEPT !.pc = "awaitOperation", !.invoked = 1,
                                       !.left = Deref(heap', circuit)]]
        /\ cleared' = cleared \ {operationName}
        /\ UNCHANGED <<now, rc, stats>>

(* await operation() resolves with value. A circuit that is a primitive    *)
(* (the key holds a number or a string) cannot take the assignment: the    *)
(* class body is strict code, the TypeError lands in the catch block, and  *)
(* circuit.failureCount++ there throws the TypeError the call ends with.   *)
BreakerOperationResolves(s, value) ==
    LET c == bc[s]
    IN  /\ c.pc = "awaitOperation"
        /\ IF c.circuit.kind = "object"
           THEN /\ heap' = [heap EXCEPT ![c.circuit.ref] = OnSuccess(@)]
                /\ bc' = [bc EXCEPT ![s] =
                             [c EXCEPT !.pc = "returned", !.resolved = value, !.result = value,
                                       !.final = heap'[c.circuit.ref], !.settledAt = now]]
           ELSE /\ heap' = heap
                /\ bc' = [bc EXCEPT ![s] =
                             [c EXCEPT !.pc = "thrown", !.resolved = value, !.thrown = TypeError,
                                       !.settledAt = now]]
        /\ runs' = [runs EXCEPT ![c.operationName] = NoRun]
        /\ UNCHANGED <<retryAttempts, now, rc, stats, started, cleared>>

(* a failure recorded in the circuit the key holds when the action        *)
(* settles, not in the circuit the call looked up when it started          *)
BreakerOperationRejectsByKey(s, message) ==
    LET c == bc[s]
        entry == MapGet(retryAttempts, CircuitKey(c.operationName))
        circuit == IF entry.kind = "object" THEN entry ELSE c.circuit
    IN  /\ c.pc = "awaitOperation"
        /\ IF circuit.kind = "object"
           THEN /\ heap' = [heap EXCEPT ![circuit.ref] = OnFailure(@, c.options.failureThreshold)]
                /\ bc' = [bc EXCEPT ![s] =
                             [c EXCEPT !.pc = "thrown", !.thrown = ActionError(message),
                                       !.final = heap'[circuit.ref], !.settledAt = now]]
           ELSE /\ heap' = heap
                /\ bc' = [bc EXCEPT ![s] =
                             [c EXCEPT !.pc = "thrown", !.thrown = TypeError, !.settledAt = now]]
        /\ runs' = [runs EXCEPT ![c.operationName] =
                       IF @.valid THEN [@ EXCEPT !.len = @ + 1] ELSE @]
        /\ UNCHANGED <<retryAttempts, now, rc, stats, started, cleared>>

(* await operation() rejects with an error of the given message *)
BreakerOperationRejects(s, message) ==
    LET c == bc[s]
    IN  /\ c.pc = "awaitOperation"
        /\ IF c.circuit.kind = "object"
           THEN /\ heap' = [heap EXCEPT ![c.circuit.ref] = OnFailure(@, c.options.failureThreshold)]
                /\ bc' = [bc EXCEPT ![s] =
                             [c EXCEPT !.pc = "thrown", !.thrown = ActionError(message),
                                       !.final = heap'[c.circuit.ref], !.settledAt = now]]
           ELSE /\ heap' = heap
                /\ bc' = [bc EXCEPT ![s] =
                             [c EXCEPT !.pc = "thrown", !.thrown = TypeError, !.settledAt = now]]
        /\ runs' = [runs EXCEPT ![c.operationName] =
                       IF @.valid THEN [@ EXCEPT !.len = @ + 1] ELSE @]
        /\ UNCHANGED <<retryAttempts, now, rc, stats, started, cleared>>

-----------------------------------------------------------------------------
(* The registry's other operations, and the clock *)

(* getRetryStats(): a number becomes { totalRetries: number }, any other   *)
(* entry is put into the result as it is (a circuit object by reference).  *)
GetRetryStats ==
    /\ stats' = [k \in DOMAIN retryAttempts |->
                    IF retryAttempts[k].kind = "number"
                    THEN [kind |-> "totalRetries", n |-> retryAttempts[k].n, ref |-> 0]
                    ELSE retryAttempts[k]]
    /\ stats' # stats
    /\ UNCHANGED <<retryAttempts, heap, now, rc, bc, started, runs, cleared>>

(* resetStats(): this.retryAttempts.clear() *)
ResetStats ==
    /\ retryAttempts # EmptyMap
    /\ retryAttempts' = EmptyMap
    /\ runs' = [n \in Names |-> NoRun]
    /\ cleared' = cleared \cup {n \in Names :
                      Deref(heap, MapGet(retryAttempts, CircuitKey(n))).state \in {"open", "half-open"}}
    /\ UNCHANGED <<heap, now, rc, bc, stats, started>>

(* A millisecond passes *)
Tick ==
    /\ now < StartTime + MaxTime
    /\ now' = now + 1
    /\ UNCHANGED <<retryAttempts, heap, rc, bc, stats, started, runs, cleared>>

-----------------------------------------------------------------------------
(* The callers of executeWithRetry in app.js: the panel's initialisation   *)
(* and readLocalFile. Their error messages are strings, and their          *)
(* shouldRetry callbacks are computed from the message.                    *)

(* String.prototype.includes *)
Includes(s, t) == \E i \in 1 .. Len(s) - Len(t) + 1 : SubSeq(s, i, i + Len(t) - 1) = t

UpperCase == "ABCDEFGHIJKLMNOPQRSTUVWXYZ"
LowerCase == "abcdefghijklmnopqrstuvwxyz"

LowerChar(ch) ==
    IF \E i \in 1 .. Len(UpperCase) : SubSeq(UpperCase, i, i) = ch
    THEN LET i == CHOOSE j \in 1 .. Len(UpperCase) : SubSeq(UpperCase, j, j) = ch
         IN  SubSeq(LowerCase, i, i)
    ELSE ch

(* String.prototype.toLowerCase *)
RECURSIVE ToLowerCase(_)
ToLowerCase(s) ==
    IF Len(s) = 0 THEN "" ELSE LowerChar(SubSeq(s, 1, 1)) \o ToLowerCase(SubSeq(s, 2, Len(s)))

(* error.message: the Error executeWithRetry throws reads                  *)
(* `${operationName} failed after ${maxRetries + 1} attempts. Last error:  *)
(* ${lastError.message}`                                                   *)
MessageOf(error) ==
    IF error.kind = "RetryFailed"
    THEN error.name \o " failed after " \o ToString(error.attempts)
         \o " attempts. Last error: " \o error.message
    ELSE error.message

(* isRetryableError(error) *)
RetryableErrors == {"network", "timeout", "connection", "temporary", "busy", "unavailable"}

IsRetryableError(message) ==
    \E keyword \in RetryableErrors : Includes(ToLowerCase(message), keyword)

(* what a shouldRetry callback returned, as the answer of the rejection step *)
Answer(b) == IF b THEN "true" ELSE "false"

(* initializeAsync: the options of executeWithRetry('MaterialIconsPanel_Initialize') *)
PanelOptions == [maxRetries |-> 2, baseDelay |-> 2000, shouldRetry |-> "sync", onRetry |-> TRUE]

PanelShouldRetry(message) ==
    \/ Includes(message, "CSInterface")
    \/ Includes(message, "not available")
    \/ Includes(message, "connectivity")
    \/ IsRetryableError(message)

(* initializeCSInterface: the options of executeWithRetry('CSInterface_Initialize') *)
CSInterfaceOptions ==
    [maxRetries |-> 9, baseDelay |-> 500, maxDelay |-> 5000, backoffMultiplier |-> <<3, 2>>,
     shouldRetry |-> "sync", onRetry |-> TRUE]

CSInterfaceShouldRetry(message) ==
    ~Includes(message, "permanently") /\ ~Includes(message, "unsupported")

(* the errors of the CSInterface initialisation action: the class is       *)
(* missing, or the test script gave a result other than the expected one   *)
CSInterfaceErrors ==
    {"CSInterface class not available",
     "CSInterface test failed: unsupported host",
     "CSInterface test failed: permanently disabled"}

(* the errors of this.init() *)
PanelInitErrors == {"Network timeout", "Icon data is invalid"}

(* this.initializeCSInterface(): executeWithRetry is called and invokes    *)
(* the CSInterface action as attempt 1                                     *)
InitializeCSInterface ==
    Invoked([IdleRetry EXCEPT !.operationName = "CSInterface_Initialize",
                              !.options = Destructure(CSInterfaceOptions),
                              !.before = MapGet(retryAttempts, "CSInterface_Initialize")], 1)

(* The panel calls initializeAsync(): executeWithRetry invokes the action  *)
(* as attempt 1, and the action runs up to await this.initializeCSInterface(), *)
(* which has started its own executeWithRetry call. Slot 1 is the call of  *)
(* initializeAsync, slot 2 the call of initializeCSInterface.              *)
InitializeAsync ==
    /\ rc[1].pc = "idle"
    /\ rc[2].pc = "idle"
    /\ started' = started + 2
    /\ rc' = [rc EXCEPT ![1] = Invoked([IdleRetry EXCEPT
                                            !.operationName = "MaterialIconsPanel_Initialize",
                                            !.options = Destructure(PanelOptions),
                                            !.before = MapGet(retryAttempts,
                                                              "MaterialIconsPanel_Initialize")], 1),
                        ![2] = InitializeCSInterface]
    /\ UNCHANGED <<retryAttempts, heap, now, bc, stats, runs, cleared>>

(* The CSInterface action settles *)
CSInterfaceActionResolves ==
    /\ rc[1].pc = "awaitOperation"
    /\ RetryOperationResolves(2, "true")

CSInterfaceActionRejects(message) ==
    /\ rc[1].pc = "awaitOperation"
    /\ RetryOperationRejects(2, message, Answer(CSInterfaceShouldRetry(message)))

(* await this.initializeCSInterface() rejects: the action of              *)
(* initializeAsync rejects with the error executeWithRetry threw           *)
InitializeCSInterfaceRejects ==
    /\ rc[2].pc = "thrown"
    /\ RetryOperationRejects(1, MessageOf(rc[2].thrown),
                             Answer(PanelShouldRetry(MessageOf(rc[2].thrown))))

(* await this.initializeCSInterface() has resolved, and await this.init()  *)
(* settles                                                                 *)
PanelInitResolves ==
    /\ rc[2].pc = "returned"
    /\ RetryOperationResolves(1, "true")

PanelInitRejects(message) ==
    /\ rc[2].pc = "returned"
    /\ RetryOperationRejects(1, message, Answer(PanelShouldRetry(message)))

(* The timer of the wait of initializeAsync fires: attempt++, the action   *)
(* is invoked again and calls this.initializeCSInterface() again           *)
PanelTimerFires ==
    /\ rc[1].pc = "awaitDelay"
    /\ rc[1].operationName = "MaterialIconsPanel_Initialize"
    /\ now' = Max(now, rc[1].deadline)
    /\ IF LoopCondition(rc[1].attempt + 1, rc[1].options.maxRetries)
       THEN /\ rc' = [rc EXCEPT ![1] = Invoked([rc[1] EXCEPT !.log =
                                                   Append(@, Event("timer", rc[1].attempt, NoMessage,
                                                                   rc[1].delay, ""))],
                                               rc[1].attempt + 1),
                                ![2] = InitializeCSInterface]
            /\ started' = started + 1
            /\ UNCHANGED retryAttempts
       ELSE /\ GiveUp(1, [rc[1] EXCEPT !.attempt = rc[1].attempt + 1])
            /\ UNCHANGED started
    /\ UNCHANGED <<heap, bc, stats, runs, cleared>>

(* readLocalFile(filePath, maxRetries): the options of                     *)
(* executeWithRetry(`FileRead_${normalizedPath}`)                          *)
FileReadOptions(maxRetries) ==
    [maxRetries |-> maxRetries - 1, baseDelay |-> 1000, maxDelay |-> 5000,
     backoffMultiplier |-> <<2, 1>>, shouldRetry |-> "sync", onRetry |-> TRUE]

FileReadShouldRetry(message) ==
    \/ ~Includes(message, "not found")
    \/ ~Includes(message, "permission denied")
    \/ ~Includes(message, "access denied")

(* result.error of a failed attemptFileRead, text of the host included *)
FileReadErrors ==
    {"File does not exist: C:\\ext\\codepoints",
     "ExtendScript error: Error: File or folder not found",
     "File permission error: Error: permission denied",
     "File permission error: Error: access denied",
     "File not found, permission denied, access denied"}

(* A caller calls readLocalFile(filePath, maxRetries) *)
ReadLocalFile(maxRetries, bound) ==
    RetryCall(1, "FileRead_C:\\ext\\codepoints", FileReadOptions(maxRetries), bound)

(* The file-read action settles *)
FileReadRejects(message) ==
    RetryOperationRejects(1, message, Answer(FileReadShouldRetry(message)))

-----------------------------------------------------------------------------
(* The calls the callers make *)

ShouldRetryKinds == {"absent", "sync", "async"}

(* executeWithRetry calls that exercise the control flow *)
RetryPool ==
    {[maxRetries |-> m, baseDelay |-> 1, backoffMultiplier |-> <<2, 1>>, maxDelay |-> 3,
      onRetry |-> o, shouldRetry |-> k] :
        m \in -1 .. MaxRetriesPassed, o \in BOOLEAN, k \in ShouldRetryKinds}
    \cup {[onRetry |-> FALSE]}

Init ==
    /\ retryAttempts = EmptyMap
    /\ heap = <<>>
    /\ now = StartTime
    /\ rc = [s \in RetrySlots |-> IdleRetry]
    /\ bc = [s \in BreakerSlots |-> IdleBreaker]
    /\ stats = EmptyMap
    /\ started = 0
    /\ runs = [n \in Names |-> NoRun]
    /\ cleared = {}

(* executeWithRetry calls that exercise the backoff arithmetic; the last   *)
(* ones leave the delays to the defaults of the constructor.               *)
BackoffPool ==
    {[maxRetries |-> m, baseDelay |-> b, backoffMultiplier |-> k, maxDelay |-> d] :
        m \in {1, MaxBackoffRetries}, b \in {0, 2, 500},
        k \in {<<1, 2>>, <<1, 1>>, <<3, 2>>, <<2, 1>>}, d \in {1, 2, 7, 5000}}
    \cup {[maxRetries |-> m] : m \in {MaxBackoffRetries}}

(* executeWithCircuitBreaker calls; the last one leaves both options to    *)
(* the defaults.                                                           *)
BreakerPool ==
    {[failureThreshold |-> f, resetTimeout |-> r] : f \in {1, 2}, r \in {1, 2}}
    \cup {[k \in {} |-> 0]}

OverlapPool == {[failureThreshold |-> f, resetTimeout |-> 1] : f \in {1, 2}}

(* The retry executor alone, its calls made one after the other; what the *)
(* promise of an async shouldRetry resolves to is varied in SpecAsync      *)
NextRetry ==
    \/ \E o \in RetryPool : RetryCall(1, "op", o, MaxRetryCalls)
    \/ \E v \in Values : RetryOperationResolves(1, v)
    \/ \E m \in Messages, a \in {"none", "true", "false", "promise of true", "throws"} :
           RetryOperationRejects(1, m, a)
    \/ \E ok \in BOOLEAN : RetryOnRetrySettles(1, ok)
    \/ RetryTimerFires(1)

SpecRetry == Init /\ [][NextRetry]_vars

(* The circuit breaker alone, for one operation name, its calls made one   *)
(* after the other                                                         *)
NextBreaker ==
    \/ \E o \in BreakerPool : BreakerCall(1, "op", o, MaxBreakerCalls)
    \/ \E v \in Values : BreakerOperationResolves(1, v)
    \/ BreakerOperationRejects(1, "timeout")
    \/ Tick

SpecBreaker == Init /\ [][NextBreaker]_vars

(* The circuit breaker alone, for one operation name, with calls that may  *)
(* overlap at their await                                                  *)
NextOverlap ==
    \/ \E s \in BreakerSlots, o \in OverlapPool : BreakerCall(s, "op", o, MaxOverlapCalls)
    \/ \E s \in BreakerSlots : BreakerOperationResolves(s, "v1")
    \/ \E s \in BreakerSlots : BreakerOperationRejects(s, "timeout")
    \/ Tick

SpecOverlap == Init /\ [][NextOverlap]_vars

(* Overlapping breaker calls for one operation name that all pass the     *)
(* failureThreshold the first of them passed. The clock stands still: a    *)
(* call with resetTimeout 0 finds the timeout of an Open circuit elapsed,  *)
(* a call with resetTimeout 1 does not.                                    *)
UniformPool == {[failureThreshold |-> f, resetTimeout |-> r] : f \in {1, 2, 3}, r \in {0, 1}}

SameThreshold(o) ==
    \A t \in BreakerSlots : bc[t].pc # "idle" => bc[t].options.failureThreshold = o.failureThreshold

NextUniform ==
    \/ \E s \in BreakerSlots, o \in UniformPool :
           SameThreshold(o) /\ BreakerCall(s, "op", o, MaxUniformCalls)
    \/ \E s \in BreakerSlots : BreakerOperationResolves(s, "v1")
    \/ \E s \in BreakerSlots : BreakerOperationRejects(s, "timeout")

SpecUniform == Init /\ [][NextUniform]_vars

(* Calls with a sync or an async shouldRetry, one after the other *)
AsyncPool ==
    {[maxRetries |-> m, baseDelay |-> 1, maxDelay |-> 2, onRetry |-> o, shouldRetry |-> k] :
        m \in 0 .. 2, o \in BOOLEAN, k \in {"sync", "async"}}

NextAsync ==
    \/ \E o \in AsyncPool : RetryCall(1, "op", o, MaxAsyncCalls)
    \/ RetryOperationResolves(1, "v1")
    \/ \E a \in {"true", "false", "promise of true", "promise of false"} :
           RetryOperationRejects(1, "timeout", a)
    \/ \E ok \in BOOLEAN : RetryOnRetrySettles(1, ok)
    \/ RetryTimerFires(1)

SpecAsync == Init /\ [][NextAsync]_vars

(* The retry executor applied to the delays of BackoffPool, one call *)
NextBackoff ==
    \/ \E o \in BackoffPool : RetryCall(1, "op", o, 1)
    \/ RetryOperationResolves(1, "v1")
    \/ RetryOperationRejects(1, "timeout", "none")
    \/ RetryTimerFires(1)

SpecBackoff == Init /\ [][NextBackoff]_vars

(* executeWithRetry calls with an onRetry callback *)
PairPool ==
    {[maxRetries |-> m, baseDelay |-> 1, maxDelay |-> 2, onRetry |-> TRUE, shouldRetry |-> "sync"] :
        m \in {1, 2}}

(* Two callers of the retry executor, one for each operation name, whose   *)
(* calls may overlap at their awaits                                       *)
NextPair ==
    \/ \E o \in PairPool : RetryCall(1, "op", o, MaxPairCalls)
    \/ \E o \in PairPool : RetryCall(2, "circuit_op", o, MaxPairCalls)
    \/ \E s \in RetrySlots : RetryOperationResolves(s, "v1")
    \/ \E s \in RetrySlots, a \in {"true", "false"} : RetryOperationRejects(s, "timeout", a)
    \/ \E s \in RetrySlots, ok \in BOOLEAN : RetryOnRetrySettles(s, ok)
    \/ \E s \in RetrySlots : RetryTimerFires(s)

SpecPair == Init /\ [][NextPair]_vars

(* executeWithRetry calls that end after at most two attempts, and whose   *)
(* wait is a timer of 0 ms                                                 *)
RegistryRetryPool ==
    {[maxRetries |-> m, baseDelay |-> 0, maxDelay |-> 1, shouldRetry |-> "sync"] : m \in {-1, 0, 1}}

(* executeWithCircuitBreaker calls; with resetTimeout 0 an Open circuit is *)
(* HalfOpen at the next call, with resetTimeout 2 the next call is         *)
(* rejected                                                                *)
RegistryBreakerPool == {[failureThreshold |-> 1, resetTimeout |-> r] : r \in {0, 2}}

(* One caller of the retry executor and one caller of the circuit breaker, *)
(* each for either operation name, on the one registry, with resetStats;   *)
(* a retry call and a breaker call may overlap                             *)
NextRegistry ==
    \/ \E n \in Names, o \in RegistryRetryPool : RetryCall(1, n, o, MaxRegistryCalls)
    \/ \E v \in Values : RetryOperationResolves(1, v)
    \/ \E a \in {"true", "false", "throws"} : RetryOperationRejects(1, "timeout", a)
    \/ RetryTimerFires(1)
    \/ \E n \in Names, o \in RegistryBreakerPool : BreakerCall(1, n, o, MaxRegistryCalls)
    \/ \E v \in Values : BreakerOperationResolves(1, v)
    \/ BreakerOperationRejects(1, "timeout")
    \/ ResetStats

SpecRegistry == Init /\ [][NextRegistry]_vars

(* Two callers of the retry executor that take turns, so that their calls  *)
(* follow one another and never overlap, and a caller of the circuit       *)
(* breaker, on the one registry                                            *)
NextSequence ==
    \/ \E n \in Names, o \in RegistryRetryPool :
           (rc[2].pc = "idle" \/ Finished(rc[2])) /\ RetryCall(1, n, o, MaxSequenceCalls)
    \/ \E n \in Names, o \in RegistryRetryPool :
           Finished(rc[1]) /\ RetryCall(2, n, o, MaxSequenceCalls)
    \/ \E s \in RetrySlots, v \in Values : RetryOperationResolves(s, v)
    \/ \E s \in RetrySlots, a \in {"true", "false"} : RetryOperationRejects(s, "timeout", a)
    \/ \E s \in RetrySlots : RetryTimerFires(s)
    \/ \E o \in RegistryBreakerPool : BreakerCall(1, "op", o, MaxSequenceCalls)
    \/ BreakerOperationResolves(1, "v1")
    \/ BreakerOperationRejects(1, "timeout")

SpecSequence == Init /\ [][NextSequence]_vars

(* getRetryStats among retry calls, breaker calls and resetStats *)
NextStats ==
    \/ \E n \in Names : RetryCall(1, n, [maxRetries |-> 0], MaxStatsCalls)
    \/ RetryOperationResolves(1, "v1")
    \/ RetryOperationRejects(1, "timeout", "none")
    \/ \E o \in RegistryBreakerPool : BreakerCall(1, "op", o, MaxStatsCalls)
    \/ BreakerOperationResolves(1, "v1")
    \/ BreakerOperationRejects(1, "timeout")
    \/ GetRetryStats
    \/ ResetStats

SpecStats == Init /\ [][NextStats]_vars

(* The initialisation of the panel: initializeAsync around                 *)
(* initializeCSInterface, each through executeWithRetry                    *)
NextPanel ==
    \/ InitializeAsync
    \/ CSInterfaceActionResolves
    \/ \E m \in CSInterfaceErrors : CSInterfaceActionRejects(m)
    \/ \E s \in RetrySlots : RetryOnRetrySettles(s, TRUE)
    \/ RetryTimerFires(2)
    \/ InitializeCSInterfaceRejects
    \/ PanelInitResolves
    \/ \E m \in PanelInitErrors : PanelInitRejects(m)
    \/ PanelTimerFires

SpecPanel == Init /\ [][NextPanel]_vars

(* readLocalFile with its default of 3 attempts, with 2 and with 0, one    *)
(* call after the other                                                    *)
NextFile ==
    \/ \E m \in {0, 2, 3} : ReadLocalFile(m, MaxFileCalls)
    \/ RetryOperationResolves(1, "content")
    \/ \E m \in FileReadErrors : FileReadRejects(m)
    \/ \E ok \in BOOLEAN : RetryOnRetrySettles(1, ok)
    \/ RetryTimerFires(1)

SpecFile == Init /\ [][NextFile]_vars

(* Overlapping retry calls for one operation name whose action always     *)
(* fails                                                                   *)
FailingPool ==
    {[maxRetries |-> m, baseDelay |-> 1, maxDelay |-> 2, shouldRetry |-> "sync"] : m \in {0, 1}}

NextFailing ==
    \/ \E s \in RetrySlots, o \in FailingPool : RetryCall(s, "op", o, MaxFailingCalls)
    \/ \E s \in RetrySlots, a \in {"true", "false"} : RetryOperationRejects(s, "timeout", a)
    \/ \E s \in RetrySlots : RetryTimerFires(s)

SpecFailing == Init /\ [][NextFailing]_vars

(* The retry executor with an environment in which every invocation of    *)
(* the action and every onRetry call settles and every timer fires         *)
FairPool ==
    {[maxRetries |-> m, baseDelay |-> 1, maxDelay |-> 2, onRetry |-> o, shouldRetry |-> "sync"] :
        m \in -1 .. 2, o \in BOOLEAN}

ActionSettles ==
    \/ \E v \in Values : RetryOperationResolves(1, v)
    \/ \E a \in {"true", "false", "throws"} : RetryOperationRejects(1, "timeout", a)

OnRetrySettles == \E ok \in BOOLEAN : RetryOnRetrySettles(1, ok)

NextFair ==
    \/ \E o \in FairPool : RetryCall(1, "op", o, MaxFairCalls)
    \/ ActionSettles
    \/ OnRetrySettles
    \/ RetryTimerFires(1)

SpecFair ==
    /\ Init
    /\ [][NextFair]_vars
    /\ WF_vars(ActionSettles)
    /\ WF_vars(OnRetrySettles)
    /\ WF_vars(RetryTimerFires(1))

(* Overlapping breaker calls for one operation name, with resetStats *)
NextReset ==
    \/ \E s \in BreakerSlots, o \in RegistryBreakerPool : BreakerCall(s, "op", o, MaxResetCalls)
    \/ \E s \in BreakerSlots : BreakerOperationResolves(s, "v1")
    \/ \E s \in BreakerSlots : BreakerOperationRejects(s, "timeout")
    \/ ResetStats

SpecReset == Init /\ [][NextReset]_vars

(* Retry calls for the specification of everything together *)
MixedRetryPool ==
    {[maxRetries |-> 1, baseDelay |-> 1, maxDelay |-> 2, onRetry |-> o, shouldRetry |-> "sync"] :
        o \in BOOLEAN}

(* Everything together: retry calls and breaker calls for both operation   *)
(* names, overlapping, with getRetryStats, resetStats and the clock        *)
Next ==
    \/ \E s \in RetrySlots, n \in Names, o \in MixedRetryPool : RetryCall(s, n, o, MaxMixedCalls)
    \/ \E s \in RetrySlots : RetryOperationResolves(s, "v1")
    \/ \E s \in RetrySlots, a \in {"true", "false", "throws"} : RetryOperationRejects(s, "timeout", a)
    \/ \E s \in RetrySlots, ok \in BOOLEAN : RetryOnRetrySettles(s, ok)
    \/ \E s \in RetrySlots : RetryTimerFires(s)
    \/ \E s \in BreakerSlots, n \in Names, o \in OverlapPool : BreakerCall(s, n, o, MaxMixedCalls)
    \/ \E s \in BreakerSlots : BreakerOperationResolves(s, "v1")
    \/ \E s \in BreakerSlots : BreakerOperationRejects(s, "timeout")
    \/ GetRetryStats
    \/ ResetStats
    \/ Tick

Spec == Init /\ [][Next]_vars

-----------------------------------------------------------------------------
(* What a call did, read from its log *)

EventsOf(c, ev) == SelectSeq(c.log, LAMBDA e : e.ev = ev)

(* the attempt numbers the action was invoked with, in order *)
Invocations(c) == [i \in DOMAIN EventsOf(c, "invoke") |-> EventsOf(c, "invoke")[i].attempt]

(* the delays waited, in order *)
Waits(c) == [i \in DOMAIN EventsOf(c, "wait") |-> EventsOf(c, "wait")[i].delay]

OneTo(n) == [i \in 1 .. n |-> i]

AlwaysFailed(c) == EventsOf(c, "resolve") = <<>>

SaysTrue(c) == \A i \in DOMAIN c.log : c.log[i].ev = "shouldRetry" => c.log[i].answer = "true"

-----------------------------------------------------------------------------
(* C1: when every invocation of the action fails and shouldRetry is absent *)
(* or always returns true, a call with maxRetries >= 0 invokes the action  *)
(* exactly maxRetries + 1 times, with attempt numbers 1 .. maxRetries + 1  *)
(* in that order, and then raises a failure to the caller.                 *)
C1_AllAttemptsThenFailure ==
    \A s \in RetrySlots :
        LET c == rc[s]
        IN  (/\ Finished(c)
             /\ c.options.maxRetries >= 0
             /\ c.options.shouldRetry \in {"absent", "sync"}
             /\ AlwaysFailed(c)
             /\ SaysTrue(c))
            => /\ Invocations(c) = OneTo(c.options.maxRetries + 1)
               /\ c.pc = "thrown"
               /\ c.thrown.kind = "RetryFailed"

(* a call with maxRetries = 2 whose shouldRetry said true each time gave up *)
(* after three invocations, with a counter of an earlier call in the Map   *)
C1_Witness ==
    /\ rc[1].pc = "thrown"
    /\ rc[1].thrown.kind = "RetryFailed"
    /\ rc[1].options.maxRetries = 2
    /\ rc[1].options.shouldRetry = "sync"
    /\ SaysTrue(rc[1])
    /\ Len(Invocations(rc[1])) = 3
    /\ rc[1].before.kind = "number"

(* C2: if the action first succeeds on attempt k, the call returns that    *)
(* attempt's value, the action was invoked exactly k times, and right      *)
(* after the call the registry holds nothing under the operation name,     *)
(* whatever was there before.                                              *)
C2_SuccessReturnsAndClears ==
    \A s \in RetrySlots :
        LET c == rc[s]
            last == c.log[Len(c.log)]
        IN  (c.log # <<>> /\ last.ev = "resolve")
            => /\ c.pc = "returned"
               /\ Len(EventsOf(c, "resolve")) = 1
               /\ c.result = last.answer
               /\ Invocations(c) = OneTo(last.attempt)
               /\ last.attempt <= c.options.maxRetries + 1
               /\ c.after = Undefined

(* a call that found a counter of an earlier failed call succeeded on its  *)
(* third attempt                                                           *)
C2_Witness ==
    /\ rc[1].pc = "returned"
    /\ rc[1].attempt = 3
    /\ rc[1].result = "v2"
    /\ rc[1].before = NumberEntry(1)

(* C3: if shouldRetry returns false for the failure of attempt k, the call *)
(* has invoked the action exactly k times, whatever maxRetries is: no      *)
(* onRetry call, no wait and no attempt follow, and the call raises a      *)
(* failure that carries the message of that error.                         *)
C3_ShouldRetryFalseStops ==
    \A s \in RetrySlots :
        LET c == rc[s]
        IN  \A i \in DOMAIN c.log :
                (c.log[i].ev = "shouldRetry" /\ c.log[i].answer = "false")
                => /\ i = Len(c.log)
                   /\ Invocations(c) = OneTo(c.log[i].attempt)
                   /\ c.pc = "thrown"
                   /\ c.thrown.kind = "RetryFailed"
                   /\ c.thrown.message = c.log[i].message

(* shouldRetry said false for attempt 1 of a call with maxRetries = 2 *)
C3_Witness ==
    /\ rc[1].pc = "thrown"
    /\ rc[1].options.maxRetries = 2
    /\ rc[1].attempt = 1
    /\ rc[1].log[Len(rc[1].log)].answer = "false"
    /\ rc[1].thrown.message = "not found"

-----------------------------------------------------------------------------
(* x^e as a product of e factors, for the statements about the delays *)
Power(x, e) ==
    LET p[i \in 0 .. e] == IF i = 0 THEN 1 ELSE x * p[i - 1]
    IN  p[e]

(* the rational w equals min(baseDelay * multiplier^(n-1), maxDelay) *)
IsCappedExponential(w, o, n) ==
    LET num == o.baseDelay * Power(o.backoffMultiplier[1], n - 1)
        den == Power(o.backoffMultiplier[2], n - 1)
    IN  IF num <= o.maxDelay * den
        THEN w[1] * den = num * w[2]
        ELSE w[1] = o.maxDelay * w[2]

(* 1000, 2000, 4000, 8000, 10000, 10000, ... *)
DefaultWait(n) ==
    CASE n = 1 -> 1000 [] n = 2 -> 2000 [] n = 3 -> 4000 [] n = 4 -> 8000 [] OTHER -> 10000

(* C9: the wait after the failed attempt n, before attempt n + 1, equals   *)
(* min(baseDelay * backoffMultiplier^(n-1), maxDelay); with the defaults   *)
(* 1000, 2 and 10000 the successive waits are 1000, 2000, 4000, 8000,      *)
(* 10000, 10000, ...                                                       *)
C9_WaitIsCappedExponential ==
    \A s \in RetrySlots :
        LET c == rc[s]
            w == Waits(c)
        IN  /\ \A n \in DOMAIN w :
                   /\ EventsOf(c, "wait")[n].attempt = n
                   /\ IsCappedExponential(w[n], c.options, n)
            /\ (/\ c.pc # "idle"
                /\ c.options.baseDelay = 1000
                /\ c.options.backoffMultiplier = <<2, 1>>
                /\ c.options.maxDelay = 10000)
               => \A n \in DOMAIN w : w[n] = <<DefaultWait(n), 1>>

(* a call that left the delays to the defaults has waited six times, and   *)
(* the clock has advanced by the six waits                                 *)
C9_Witness ==
    /\ Waits(rc[1]) = <<(<<1000, 1>>), <<2000, 1>>, <<4000, 1>>, <<8000, 1>>, <<10000, 1>>, <<10000, 1>>>>
    /\ rc[1].pc = "awaitOperation"
    /\ rc[1].attempt = 7
    /\ now = StartTime + 35000

(* C10: with baseDelay >= 0, backoffMultiplier >= 1 and maxDelay >=        *)
(* baseDelay, the waits of one call never decrease, none is below          *)
(* baseDelay and none exceeds maxDelay.                                    *)
C10_WaitsMonotoneAndBounded ==
    \A s \in RetrySlots :
        LET c == rc[s]
            w == Waits(c)
            o == c.options
        IN  (/\ o.baseDelay >= 0
             /\ o.backoffMultiplier[1] >= o.backoffMultiplier[2]
             /\ o.maxDelay >= o.baseDelay)
            => /\ \A n \in DOMAIN w :
                      /\ RatLeq(<<o.baseDelay, 1>>, w[n])
                      /\ RatLeq(w[n], <<o.maxDelay, 1>>)
               /\ \A n \in DOMAIN w : n > 1 => RatLeq(w[n - 1], w[n])

(* baseDelay 2, multiplier 1.5 and maxDelay 7: the waits 2, 3, 4.5, 6.75   *)
(* grow and then stay at the cap                                           *)
C10_Witness ==
    /\ rc[1].options.baseDelay = 2
    /\ rc[1].options.backoffMultiplier = <<3, 2>>
    /\ rc[1].options.maxDelay = 7
    /\ Len(Waits(rc[1])) = 6
    /\ Waits(rc[1])[3] = <<9, 2>>
    /\ Waits(rc[1])[4] = <<27, 4>>
    /\ Waits(rc[1])[5] = <<7, 1>>
    /\ Waits(rc[1])[6] = <<7, 1>>

-----------------------------------------------------------------------------
(* the circuit the registry holds for an operation name *)
CircuitOf(operationName) == Deref(heap, MapGet(retryAttempts, CircuitKey(operationName)))

Rejected(c) == c.pc = "thrown" /\ c.thrown.kind = "CircuitOpen" /\ c.invoked = 0

Elapsed(c) == c.calledAt - c.found.lastFailureTime

(* C4: starting from a Closed circuit with failureCount 0, after           *)
(* failureThreshold consecutive calls for one operation name whose action  *)
(* failed the circuit is Open, and the next call, made while               *)
(* now - lastFailureTime < resetTimeout, is rejected with the circuit-open *)
(* error and its action is not invoked.                                    *)
C4_OpenAfterThresholdFailures ==
    /\ \A n \in Names :
           (/\ runs[n].valid
            /\ runs[n].len >= runs[n].failureThreshold
            /\ PendingBreaker(n) = {})
           => CircuitOf(n).state = "open"
    /\ \A s \in BreakerSlots :
           LET c == bc[s]
           IN  (/\ c.pc # "idle"
                /\ c.run.valid
                /\ c.run.len >= c.run.failureThreshold
                /\ Elapsed(c) < c.options.resetTimeout)
               => Rejected(c)

(* with the default options, five calls failed one after the other and the *)
(* sixth was rejected                                                      *)
C4_Witness ==
    /\ bc[1].run.valid
    /\ bc[1].run.len = 5
    /\ bc[1].options.failureThreshold = 5
    /\ bc[1].options.resetTimeout = 30000
    /\ Rejected(bc[1])
    /\ started = 6

(* C5: a call that finds the circuit Open is rejected, its action not      *)
(* invoked, if and only if now - lastFailureTime < resetTimeout; when the  *)
(* elapsed time is equal to or greater than resetTimeout the circuit moves *)
(* to HalfOpen and the action is invoked.                                  *)
C5_OpenRejectsUntilTimeout ==
    \A s \in BreakerSlots :
        LET c == bc[s]
        IN  c.found.state = "open"
            => /\ Rejected(c) <=> Elapsed(c) < c.options.resetTimeout
               /\ Elapsed(c) >= c.options.resetTimeout
                  => (c.left.state = "half-open" /\ c.invoked = 1)
               /\ Rejected(c) => c.left = c.found

(* a call made exactly resetTimeout after the last failure was admitted *)
C5_Witness ==
    /\ bc[1].found.state = "open"
    /\ Elapsed(bc[1]) = bc[1].options.resetTimeout
    /\ bc[1].options.resetTimeout = 2
    /\ bc[1].pc = "awaitOperation"
    /\ bc[1].invoked = 1
    /\ CircuitOf("op").state = "half-open"

(* C6: when the trial call admitted in HalfOpen succeeds, the circuit is   *)
(* Closed with failureCount 0 and lastSuccessTime the time of that         *)
(* success, and the call returns the value of the action.                  *)
C6_TrialSuccessCloses ==
    \A s \in BreakerSlots :
        LET c == bc[s]
        IN  (c.left.state = "half-open" /\ c.resolved # NoValue)
            => /\ c.pc = "returned"
               /\ c.result = c.resolved
               /\ c.final.state = "closed"
               /\ c.final.failureCount = 0
               /\ c.final.lastSuccessTime = c.settledAt
               /\ CircuitOf(c.operationName) = c.final

(* a trial call admitted two milliseconds after the start with             *)
(* failureCount 2 succeeded a millisecond later                            *)
C6_Witness ==
    /\ bc[1].pc = "returned"
    /\ bc[1].found.state = "open"
    /\ bc[1].found.failureCount = 2
    /\ bc[1].calledAt = StartTime + 2
    /\ bc[1].settledAt = StartTime + 3
    /\ bc[1].result = "v2"
    /\ CircuitOf("op") = Circuit("closed", 0, StartTime + 1, StartTime + 3)

(* C7: while a circuit is HalfOpen exactly one trial invocation is         *)
(* admitted: no call invokes its action while the action of the trial call *)
(* for the same operation name is still pending.                           *)
C7_SingleTrialInHalfOpen ==
    [][\A t \in BreakerSlots :
          (bc[t].pc # "awaitOperation" /\ bc'[t].pc = "awaitOperation")
          => ~ \E s \in BreakerSlots \ {t} :
                   /\ bc[s].pc = "awaitOperation"
                   /\ bc[s].operationName = bc'[t].operationName
                   /\ bc[s].found.state = "open"
                   /\ Deref(heap, bc[s].circuit).state = "half-open"]_vars

(* C8: also when calls for one operation name overlap, the state of a      *)
(* circuit changes only along Closed->Open, Open->HalfOpen,                *)
(* HalfOpen->Closed and HalfOpen->Open.                                    *)
C8_OnlyListedTransitions ==
    [][\A r \in DOMAIN heap :
          heap'[r].state # heap[r].state
          => <<heap[r].state, heap'[r].state>> \in
                {<<"closed", "open">>, <<"open", "half-open">>,
                 <<"half-open", "closed">>, <<"half-open", "open">>}]_vars

-----------------------------------------------------------------------------
(* C11: after the failure of the last allowed attempt, number              *)
(* maxRetries + 1, the call neither invokes onRetry nor waits: onRetry is  *)
(* never called with an attempt number greater than maxRetries, no wait    *)
(* has such an attempt number, and nothing but the question to shouldRetry *)
(* follows the failure of attempt maxRetries + 1.                          *)
C11_NoCallbackNoWaitAfterLastAttempt ==
    \A s \in RetrySlots :
        LET c == rc[s]
        IN  \A i \in DOMAIN c.log :
                /\ c.log[i].ev \in {"onRetry", "onRetrySettled", "wait", "timer"}
                   => c.log[i].attempt <= c.options.maxRetries
                /\ (c.log[i].ev = "reject" /\ c.log[i].attempt = c.options.maxRetries + 1)
                   => /\ Finished(c)
                      /\ \A j \in DOMAIN c.log : j > i => c.log[j].ev = "shouldRetry"

(* a call with maxRetries = 2 and an onRetry callback, whose shouldRetry   *)
(* said true for the failure of attempt 3, ended there: onRetry was called *)
(* twice and there were two waits                                          *)
C11_Witness ==
    /\ rc[1].pc = "thrown"
    /\ rc[1].options.maxRetries = 2
    /\ rc[1].options.onRetry
    /\ rc[1].log[Len(rc[1].log)] = Event("shouldRetry", 3, "timeout", ZeroDelay, "true")
    /\ Len(EventsOf(rc[1], "onRetry")) = 2
    /\ Len(Waits(rc[1])) = 2

-----------------------------------------------------------------------------
(* what the action and shouldRetry did in a call, in order *)
Outcomes(c) == SelectSeq(c.log, LAMBDA e : e.ev \in {"reject", "resolve", "shouldRetry"})

(* how the onRetry calls of a call ended, in order *)
Settlements(c) ==
    [i \in DOMAIN EventsOf(c, "onRetrySettled") |-> EventsOf(c, "onRetrySettled")[i].answer]

(* C12: a failure of onRetry never affects the control flow. Two finished  *)
(* calls made with the same options on the same registry entry, in which   *)
(* the action and shouldRetry did the same, invoked the action the same    *)
(* number of times, waited the same delays, left the same registry entry   *)
(* and returned the same value or raised the same failure, however their   *)
(* onRetry calls ended; and every onRetry call, resolved or rejected, is   *)
(* followed at once by the wait for the delay it was given.                *)
C12_OnRetryFailureIgnored ==
    /\ \A s, t \in RetrySlots :
           (/\ Finished(rc[s]) /\ Finished(rc[t])
            /\ rc[s].options = rc[t].options
            /\ rc[s].before = rc[t].before
            /\ Outcomes(rc[s]) = Outcomes(rc[t]))
           => /\ Invocations(rc[s]) = Invocations(rc[t])
              /\ Waits(rc[s]) = Waits(rc[t])
              /\ rc[s].after = rc[t].after
              /\ rc[s].pc = rc[t].pc
              /\ rc[s].result = rc[t].result
              /\ [rc[s].thrown EXCEPT !.name = ""] = [rc[t].thrown EXCEPT !.name = ""]
    /\ \A s \in RetrySlots :
           LET c == rc[s]
           IN  \A i \in DOMAIN c.log :
                   c.log[i].ev = "onRetrySettled"
                   => /\ i > 1 /\ i < Len(c.log)
                      /\ c.log[i - 1].ev = "onRetry"
                      /\ c.log[i + 1] = Event("wait", c.log[i].attempt, NoMessage, c.log[i - 1].delay, "")

(* two calls with maxRetries = 2 failed three times each with the same     *)
(* errors; the onRetry calls of the first resolved, those of the second    *)
(* rejected                                                                *)
C12_Witness ==
    /\ rc[1].pc = "thrown" /\ rc[2].pc = "thrown"
    /\ rc[1].options = rc[2].options
    /\ rc[1].options.maxRetries = 2
    /\ Outcomes(rc[1]) = Outcomes(rc[2])
    /\ Len(Invocations(rc[1])) = 3
    /\ Settlements(rc[1]) = <<"resolved", "resolved">>
    /\ Settlements(rc[2]) = <<"rejected", "rejected">>
    /\ rc[2].thrown.kind = "RetryFailed"

-----------------------------------------------------------------------------
(* the failure counter the registry holds for an operation name: the       *)
(* number under the name, 0 when there is none                             *)
CounterOf(map, operationName) ==
    IF MapGet(map, operationName).kind = "number" THEN MapGet(map, operationName).n ELSE 0

(* the step in which the call of slot s gives up after the loop *)
GivesUp(s) ==
    /\ ~ Finished(rc[s])
    /\ rc'[s].pc = "thrown"
    /\ rc'[s].thrown.kind = "RetryFailed"

(* the step in which the call of slot s returns *)
Returns(s) == rc[s].pc = "awaitOperation" /\ rc'[s].pc = "returned"

(* C13: every call that ends in failure, its attempts exhausted or         *)
(* stopped by shouldRetry, leaves under its operation name the failure     *)
(* counter it found plus exactly 1, a number, whatever the number of       *)
(* attempts, so that the counter accumulates over failing calls; the next  *)
(* call that succeeds removes it.                                          *)
C13_FailureCountsOnce ==
    [][\A s \in RetrySlots :
          /\ GivesUp(s)
             => MapGet(retryAttempts', rc[s].operationName)
                    = NumberEntry(CounterOf(retryAttempts, rc[s].operationName) + 1)
          /\ Returns(s)
             => MapGet(retryAttempts', rc[s].operationName) = Undefined]_vars

-----------------------------------------------------------------------------
(* C14: the failure a call raises carries the operation name, the number   *)
(* of attempts the call actually made, that is the number of times it      *)
(* invoked the action, also when shouldRetry stopped the loop early, and   *)
(* the message of the last error of the action.                            *)
C14_FailureCarriesAttemptsMade ==
    \A s \in RetrySlots :
        LET c == rc[s]
        IN  (c.pc = "thrown" /\ c.thrown.kind = "RetryFailed")
            => /\ c.thrown.name = c.operationName
               /\ c.thrown.attempts = Len(Invocations(c))
               /\ c.thrown.message = EventsOf(c, "reject")[Len(EventsOf(c, "reject"))].message

-----------------------------------------------------------------------------
(* C15: neither executeWithRetry nor executeWithCircuitBreaker completes   *)
(* normally without a successful invocation of the action in that call: a  *)
(* call that returned invoked the action, its last invocation succeeded    *)
(* and the value returned is the result of that invocation; a call that    *)
(* ended in any other way raised an error to its caller.                   *)
C15_ReturnsOnlyAfterSuccess ==
    /\ \A s \in RetrySlots :
           LET c == rc[s]
           IN  /\ c.pc = "returned"
                  => /\ c.log # <<>>
                     /\ c.log[Len(c.log)].ev = "resolve"
                     /\ c.log[Len(c.log)].answer \in Values
                     /\ c.result = c.log[Len(c.log)].answer
               /\ (Finished(c) /\ AlwaysFailed(c))
                  => (c.pc = "thrown" /\ c.thrown # NoError)
    /\ \A s \in BreakerSlots :
           LET c == bc[s]
           IN  /\ c.pc = "returned"
                  => /\ c.invoked = 1
                     /\ c.resolved \in Values
                     /\ c.result = c.resolved
               /\ (Finished(c) /\ c.resolved = NoValue)
                  => (c.pc = "thrown" /\ c.thrown # NoError)

(* a retry call returned the value of its second attempt and a breaker     *)
(* call returned the value of its action                                   *)
C15_Witness ==
    /\ rc[1].pc = "returned"
    /\ rc[1].attempt = 2
    /\ rc[1].result = "v2"
    /\ bc[1].pc = "returned"
    /\ bc[1].result = "v1"
    /\ bc[1].invoked = 1

-----------------------------------------------------------------------------
(* C16: a breaker call raises the circuit-open error if and only if it did *)
(* not invoke the action; a call whose action was invoked and failed       *)
(* raises the error of the action, unchanged.                              *)
C16_CircuitOpenIffNotInvoked ==
    \A s \in BreakerSlots :
        LET c == bc[s]
        IN  c.pc = "thrown"
            => /\ c.thrown = CircuitOpenError(c.operationName) <=> c.invoked = 0
               /\ (c.invoked = 1 /\ c.resolved = NoValue)
                  => c.thrown \in {ActionError(m) : m \in Messages}

-----------------------------------------------------------------------------
(* the step in which slot s starts a breaker call *)
StartsBreakerCall(s) == started' = started + 1 /\ bc'[s] # bc[s]

(* C17: resetStats leaves the registry empty, and for every operation name *)
(* whose circuit was Open or HalfOpen when it ran, the next breaker call   *)
(* for the name finds the circuit Closed with failureCount 0 and invokes   *)
(* the action.                                                             *)
C17_ResetClosesCircuits ==
    [][/\ (rc' = rc /\ bc' = bc /\ started' = started /\ retryAttempts' # retryAttempts)
          => retryAttempts' = EmptyMap
       /\ \A s \in BreakerSlots :
              (StartsBreakerCall(s) /\ bc'[s].operationName \in cleared)
              => /\ bc'[s].found.state = "closed"
                 /\ bc'[s].found.failureCount = 0
                 /\ bc'[s].invoked = 1]_vars

-----------------------------------------------------------------------------
(* a call made under the operation name takes a step *)
StepUnder(operationName) ==
    \/ \E s \in RetrySlots : rc'[s] # rc[s] /\ rc'[s].operationName = operationName
    \/ \E s \in BreakerSlots : bc'[s] # bc[s] /\ bc'[s].operationName = operationName

(* C18: two different operation names are independent, also names that     *)
(* start with circuit_: no step of a retry call or a breaker call made     *)
(* under a name A creates, changes or deletes what the registry holds for  *)
(* another name B, neither the failure counter under B nor the circuit     *)
(* under the circuit key of B.                                             *)
C18_NamesIndependent ==
    [][\A A, B \in Names :
          (A # B /\ StepUnder(A))
          => /\ MapGet(retryAttempts', B) = MapGet(retryAttempts, B)
             /\ MapGet(retryAttempts', CircuitKey(B)) = MapGet(retryAttempts, CircuitKey(B))
             /\ CircuitOf(B)' = CircuitOf(B)]_vars

-----------------------------------------------------------------------------
(* C19: for one operation name X the retry counter and the circuit state   *)
(* are separate: no step of a retry call for X changes the circuit of X,   *)
(* whether the call succeeds or fails, and no step of a breaker call for X *)
(* changes the failure counter of X, whether the call succeeds, fails or   *)
(* is rejected.                                                            *)
C19_CounterAndCircuitSeparate ==
    [][\A X \in Names :
          /\ (\E s \in RetrySlots : rc'[s] # rc[s] /\ rc'[s].operationName = X)
             => /\ MapGet(retryAttempts', CircuitKey(X)) = MapGet(retryAttempts, CircuitKey(X))
                /\ CircuitOf(X)' = CircuitOf(X)
          /\ (\E s \in BreakerSlots : bc'[s] # bc[s] /\ bc'[s].operationName = X)
             => MapGet(retryAttempts', X) = MapGet(retryAttempts, X)]_vars

(* the registry holds a failure counter and an Open circuit for the name   *)
(* op: a retry call for op has failed after two attempts, a breaker call   *)
(* for op has failed and the next one has been rejected                    *)
C19_Witness ==
    /\ MapGet(retryAttempts, "op") = NumberEntry(1)
    /\ rc[1].attempt = 2
    /\ CircuitOf("op").state = "open"
    /\ rc[1].operationName = "op" /\ rc[1].pc = "thrown"
    /\ bc[1].operationName = "op" /\ Rejected(bc[1])

-----------------------------------------------------------------------------
(* the call returned from its first attempt *)
FirstTrySuccess(c) == c.pc = "returned" /\ c.attempt = 1

(* C20: a call that succeeds on attempt 1 has invoked the action once and  *)
(* has not waited; after two calls for one operation name that follow one  *)
(* another and both succeed on their first attempt, the registry holds no  *)
(* failure counter for the name, after the first as after the second; and  *)
(* no step of such a call moves a circuit to Open.                         *)
C20_FirstTrySuccessesLeaveNothing ==
    [][/\ \A s \in RetrySlots :
              FirstTrySuccess(rc'[s])
              => /\ Invocations(rc'[s]) = <<1>>
                 /\ Waits(rc'[s]) = <<>>
       /\ (/\ FirstTrySuccess(rc'[1]) /\ FirstTrySuccess(rc'[2])
           /\ rc'[1].operationName = rc'[2].operationName)
          => /\ rc'[1].after = Undefined
             /\ rc'[2].after = Undefined
             /\ rc' # rc => MapGet(retryAttempts', rc'[1].operationName) = Undefined
       /\ \A s \in RetrySlots :
              (rc'[s] # rc[s] /\ rc'[s].attempt = 1 /\ rc'[s].pc \in {"awaitOperation", "returned"})
              => /\ Len(heap') = Len(heap)
                 /\ \A r \in DOMAIN heap : heap'[r].state = "open" => heap[r].state = "open"]_vars

(* two calls for op, one after the other, have both returned from their    *)
(* first attempt while the circuit of op, opened by a failed breaker call, *)
(* stays Open; the registry holds nothing under op                         *)
C20_Witness ==
    /\ FirstTrySuccess(rc[1]) /\ FirstTrySuccess(rc[2])
    /\ rc[1].operationName = "op" /\ rc[2].operationName = "op"
    /\ rc[1].result = "v1" /\ rc[2].result = "v2"
    /\ MapGet(retryAttempts, "op") = Undefined
    /\ CircuitOf("op").state = "open"
    /\ started = 3

-----------------------------------------------------------------------------
(* the kinds of the events of a call between the invocation of attempt n   *)
(* and the invocation of attempt n + 1, in the order of the code           *)
BetweenAttempts(c) ==
    <<"reject">>
    \o (IF c.options.shouldRetry # "absent" THEN <<"shouldRetry">> ELSE <<>>)
    \o (IF c.options.onRetry THEN <<"onRetry", "onRetrySettled">> ELSE <<>>)
    \o <<"wait", "timer">>

(* the invocations of the call that have not settled *)
PendingInvocations(c) ==
    Len(EventsOf(c, "invoke")) - Len(EventsOf(c, "resolve")) - Len(EventsOf(c, "reject"))

(* every invocation but the first comes right after the failure of the    *)
(* attempt before it, the settled onRetry call and the wait and its timer  *)
InvokedInTurn(c) ==
    \A i \in DOMAIN c.log :
        (c.log[i].ev = "invoke" /\ c.log[i].attempt > 1)
        => LET k == Len(BetweenAttempts(c))
           IN  /\ i > k + 1
               /\ c.log[i - k - 1] = Event("invoke", c.log[i].attempt - 1, NoMessage, ZeroDelay, "")
               /\ \A j \in 1 .. k :
                      /\ c.log[i - k - 1 + j].ev = BetweenAttempts(c)[j]
                      /\ c.log[i - k - 1 + j].attempt = c.log[i].attempt - 1

(* C21: within one call the attempts are strictly sequential: at most one  *)
(* invocation of the action is pending at any time, attempt n + 1 is       *)
(* invoked only after attempt n has failed, onRetry, if given, has settled *)
(* and the wait has been started, and not before the timer of that wait is *)
(* due.                                                                    *)
C21_AttemptsSequential ==
    [][\A s \in RetrySlots :
          /\ PendingInvocations(rc'[s]) = (IF rc'[s].pc = "awaitOperation" THEN 1 ELSE 0)
          /\ InvokedInTurn(rc'[s])
          /\ (rc[s].pc = "awaitDelay" /\ rc'[s].pc # "awaitDelay")
             => /\ now' >= rc[s].deadline
                /\ rc[s].deadline >= now
                /\ rc'[s].attempt = rc[s].attempt + 1]_vars

(* a call with an onRetry callback is at the invocation of attempt 3; the  *)
(* waits of 1 and 2 ms have passed                                         *)
C21_Witness ==
    /\ rc[1].pc = "awaitOperation"
    /\ rc[1].attempt = 3
    /\ rc[1].options.onRetry
    /\ Len(EventsOf(rc[1], "onRetrySettled")) = 2
    /\ now = StartTime + 3

-----------------------------------------------------------------------------
(* C22: a shouldRetry that returns a promise resolving to false for the    *)
(* failure of attempt k stops the loop as one that returns false does: the *)
(* call has invoked the action exactly k times, no onRetry call, no wait   *)
(* and no attempt follow, and the call raises the failure.                 *)
C22_AsyncFalseStops ==
    \A s \in RetrySlots :
        LET c == rc[s]
        IN  \A i \in DOMAIN c.log :
                (c.log[i].ev = "shouldRetry" /\ c.log[i].answer = "promise of false")
                => /\ i = Len(c.log)
                   /\ Invocations(c) = OneTo(c.log[i].attempt)
                   /\ c.pc = "thrown"
                   /\ c.thrown.kind = "RetryFailed"

-----------------------------------------------------------------------------
(* C23: if shouldRetry throws for the failure of attempt k, the exception  *)
(* leaves the call at once: the call has invoked the action exactly k      *)
(* times, no onRetry call, no wait and no attempt follow, the caller gets  *)
(* the exception of the callback, and the counter of the name is the one   *)
(* found when the call started.                                            *)
C23_ShouldRetryThrowPropagates ==
    \A s \in RetrySlots :
        LET c == rc[s]
        IN  \A i \in DOMAIN c.log :
                (c.log[i].ev = "shouldRetry" /\ c.log[i].answer = "throws")
                => /\ i = Len(c.log)
                   /\ Invocations(c) = OneTo(c.log[i].attempt)
                   /\ c.pc = "thrown"
                   /\ c.thrown = CallbackError
                   /\ c.after = c.before
                   /\ MapGet(retryAttempts, c.operationName) = c.before

(* shouldRetry threw for attempt 2 of a call with maxRetries = 2 that      *)
(* found the counter at 1                                                  *)
C23_Witness ==
    /\ rc[1].pc = "thrown"
    /\ rc[1].thrown = CallbackError
    /\ rc[1].options.maxRetries = 2
    /\ rc[1].attempt = 2
    /\ rc[1].before = NumberEntry(1)
    /\ retryAttempts = MapSet(EmptyMap, "op", NumberEntry(1))

-----------------------------------------------------------------------------
(* the call found the circuit Open with resetTimeout elapsed, made it      *)
(* HalfOpen and invoked the action, and the action failed                  *)
TrialFailed(c) ==
    /\ c.pc = "thrown"
    /\ c.thrown.kind = "ActionError"
    /\ c.found.state = "open"
    /\ c.left.state = "half-open"

(* C24: when the same failureThreshold is passed on every call, the        *)
(* failure of a HalfOpen trial leaves the circuit Open exactly when        *)
(* failureCount has reached failureThreshold again, and otherwise leaves   *)
(* it Closed; with failureThreshold >= 2 there is a run in which a trial   *)
(* fails and the circuit is not Open afterwards (C24_Witness).             *)
C24_TrialFailureReopensAtThreshold ==
    \A s \in BreakerSlots :
        TrialFailed(bc[s])
        => /\ (bc[s].final.state = "open")
              <=> (bc[s].final.failureCount >= bc[s].options.failureThreshold)
           /\ bc[s].final.state \in {"open", "closed"}
           /\ bc[s].final.failureCount >= 1

(* the trial of slot 1 failed after a call of slot 2 had succeeded: the    *)
(* circuit is Closed with failureCount 1 under failureThreshold 2          *)
C24_Witness ==
    /\ TrialFailed(bc[1])
    /\ bc[1].options.failureThreshold = 2
    /\ bc[2].pc = "returned"
    /\ bc[1].final = CircuitOf("op")
    /\ CircuitOf("op").state = "closed"
    /\ CircuitOf("op").failureCount = 1

-----------------------------------------------------------------------------
(* C30: when every call for a key passes the same failureThreshold >= 1,   *)
(* in every reachable state of the registry, under any interleaving of     *)
(* overlapping calls, a Closed circuit has failureCount < failureThreshold, *)
(* an Open or HalfOpen circuit has failureCount >= failureThreshold, and   *)
(* failureCount is never negative.                                         *)
C30_StateAgreesWithCount ==
    \A s \in BreakerSlots :
        (bc[s].pc # "idle" /\ MapHas(retryAttempts, CircuitKey("op")))
        => LET circuit == CircuitOf("op")
               failureThreshold == bc[s].options.failureThreshold
           IN  /\ failureThreshold >= 1
               /\ circuit.state \in {"closed", "open", "half-open"}
               /\ circuit.state = "closed" => circuit.failureCount < failureThreshold
               /\ circuit.state \in {"open", "half-open"} => circuit.failureCount >= failureThreshold
               /\ circuit.failureCount >= 0

(* two calls are pending on a HalfOpen circuit with failureCount 2 under   *)
(* failureThreshold 2: the trial, and a call admitted while it was pending *)
C30_Witness ==
    /\ \A s \in BreakerSlots : bc[s].pc = "awaitOperation" /\ bc[s].options.failureThreshold = 2
    /\ CircuitOf("op").state = "half-open"
    /\ CircuitOf("op").failureCount = 2
    /\ \E s \in BreakerSlots : bc[s].found.state = "half-open"

-----------------------------------------------------------------------------
(* In the step in which slot s starts a breaker call for operationName,    *)
(* getCircuitState has created an entry holding the circuit fresh if the   *)
(* key had none, and has returned the entry of the key with its circuit as *)
(* it was if the key had one.                                              *)
LooksUp(s, operationName, fresh) ==
    LET circuitKey == CircuitKey(operationName)
    IN  IF ~MapHas(retryAttempts, circuitKey)
        THEN /\ retryAttempts' = MapSet(retryAttempts, circuitKey, ObjectEntry(Len(heap) + 1))
             /\ bc'[s].circuit = ObjectEntry(Len(heap) + 1)
             /\ bc'[s].found = fresh
             /\ heap' = Append(heap, fresh)
        ELSE /\ retryAttempts' = retryAttempts
             /\ bc'[s].circuit = MapGet(retryAttempts, circuitKey)
             /\ bc'[s].found = Deref(heap, MapGet(retryAttempts, circuitKey))
             /\ Len(heap') = Len(heap)
             /\ \A r \in DOMAIN heap :
                    /\ heap'[r].failureCount = heap[r].failureCount
                    /\ heap'[r].lastFailureTime = heap[r].lastFailureTime
                    /\ heap'[r].lastSuccessTime = heap[r].lastSuccessTime
                    /\ heap'[r].state # heap[r].state
                       => (IsOpen(heap[r]) /\ r = bc'[s].circuit.ref /\ bc'[s].invoked = 1)

(* C25 as stated: getCircuitState creates an entry only when the key has   *)
(* none, Closed with failureCount 0 and both timestamps at the current     *)
(* time, and returns an existing entry unchanged.                          *)
C25_LookupCreatesBothStampsNow ==
    [][\A s \in BreakerSlots, n \in Names :
          (StartsBreakerCall(s) /\ bc'[s].operationName = n)
          => LooksUp(s, n, Circuit("closed", 0, now, now))]_vars

(* C25, amended: getCircuitState creates an entry only when the key has    *)
(* none, Closed with failureCount 0, lastSuccessTime at the current time   *)
(* and lastFailureTime 0, and returns an existing entry with its state,    *)
(* failureCount and timestamps unchanged.                                  *)
C25_LookupCreatesOnce ==
    [][\A s \in BreakerSlots, n \in Names :
          (StartsBreakerCall(s) /\ bc'[s].operationName = n)
          => LooksUp(s, n, Circuit("closed", 0, 0, now))]_vars

(* a call made after the clock moved has looked up a Closed circuit that   *)
(* had counted one failure                                                 *)
C25_Witness ==
    /\ bc[1].pc = "awaitOperation"
    /\ bc[1].found.state = "closed"
    /\ bc[1].found.failureCount = 1
    /\ bc[1].found.lastFailureTime > bc[1].found.lastSuccessTime
    /\ bc[1].calledAt > bc[1].found.lastFailureTime
    /\ CircuitOf("op") = bc[1].found

-----------------------------------------------------------------------------
(* what a caller reads in the object getRetryStats() returned: the         *)
(* properties of the objects it holds are read through their references    *)
Snapshot(h, st) ==
    [k \in DOMAIN st |-> IF st[k].kind = "object" THEN h[st[k].ref] ELSE st[k]]

(* C26: getRetryStats() returns a snapshot: it has one entry for every key *)
(* of the registry, the call does not modify the registry, and what the    *)
(* returned object reads as is not changed by any later step of a retry    *)
(* call, a breaker call or resetStats.                                     *)
C26_StatsIsSnapshot ==
    [][/\ stats' # stats
          => /\ DOMAIN stats' = DOMAIN retryAttempts
             /\ retryAttempts' = retryAttempts
             /\ heap' = heap
       /\ stats' = stats
          => Snapshot(heap', stats) = Snapshot(heap, stats)]_vars

-----------------------------------------------------------------------------
(* a permanent CSInterface error *)
Permanent(message) == Includes(message, "unsupported") \/ Includes(message, "permanently")

(* the first invocation of the CSInterface action in the run of            *)
(* initializeAsync failed with a permanent error, and initializeCSInterface *)
(* has thrown                                                              *)
FailedPermanentlyAtOnce ==
    /\ rc[1].attempt = 1
    /\ rc[2].pc = "thrown"
    /\ Invocations(rc[2]) = <<1>>
    /\ Permanent(rc[2].lastError.message)

(* C27: during the initialisation of the panel a permanent CSInterface     *)
(* error stops retrying at once: when the first invocation of the          *)
(* CSInterface action fails with a message containing 'unsupported' or     *)
(* 'permanently', the action is not invoked again in that run of           *)
(* initializeAsync (no second call of initializeCSInterface, no second     *)
(* attempt of initializeAsync's action).                                   *)
C27_PermanentErrorInvokesOnce ==
    [][FailedPermanentlyAtOnce
       => /\ rc'[1].attempt = 1
          /\ rc'[2] = rc[2]]_vars

-----------------------------------------------------------------------------
(* C28: readLocalFile does not retry a permanent error: when an attempt    *)
(* fails with a message containing 'not found', 'permission denied' or     *)
(* 'access denied', the file-read action has been invoked exactly once,    *)
(* nothing follows the failure, and the call fails.                        *)
C28_PermanentFileErrorNotRetried ==
    \A i \in DOMAIN rc[1].log :
        (/\ rc[1].log[i].ev = "reject"
         /\ \/ Includes(rc[1].log[i].message, "not found")
            \/ Includes(rc[1].log[i].message, "permission denied")
            \/ Includes(rc[1].log[i].message, "access denied"))
        => /\ Invocations(rc[1]) = <<1>>
           /\ rc[1].pc = "thrown"
           /\ rc[1].thrown.kind = "RetryFailed"
           /\ EventsOf(rc[1], "wait") = <<>>

-----------------------------------------------------------------------------
(* the calls that are in flight *)
InFlight == {s \in RetrySlots : rc[s].pc \notin {"idle", "returned", "thrown"}}

(* C29: overlapping calls lose no update of the counter: when calls for    *)
(* one operation name are in flight together and each ends in failure,     *)
(* with no success in between, the counter has gone up by one for each of  *)
(* them, under every interleaving: it is the number of calls that have     *)
(* failed, and the call that gives up sets it to one more than it was.     *)
C29_NoLostUpdates ==
    [][/\ CounterOf(retryAttempts', "op") = started' - Cardinality(InFlight')
       /\ \A s \in RetrySlots :
              GivesUp(s) => CounterOf(retryAttempts', "op") = CounterOf(retryAttempts, "op") + 1]_vars

(* two calls that both found no counter have failed: the counter is 2 *)
C29_Witness ==
    /\ \A s \in RetrySlots : rc[s].pc = "thrown" /\ rc[s].before = Undefined
    /\ rc[1].after = NumberEntry(1)
    /\ rc[2].after = NumberEntry(2)
    /\ CounterOf(retryAttempts, "op") = 2
    /\ rc[1].attempt = 2

-----------------------------------------------------------------------------
(* the step in which slot s starts a breaker call and the call is rejected *)
StartsRejected(s) ==
    /\ started' = started + 1
    /\ Rejected(bc'[s])
    /\ \A t \in BreakerSlots \ {s} : bc'[t] = bc[t]
    /\ bc'[s].calledAt = now

(* C31: a rejected call leaves the circuit entry completely unchanged      *)
(* (state, failureCount, lastFailureTime, lastSuccessTime), so rejections  *)
(* never extend the open period: a call that finds the circuit Open when   *)
(* resetTimeout has elapsed since lastFailureTime is admitted, and         *)
(* lastFailureTime of an Open circuit moves only when an action fails.     *)
C31_RejectionLeavesCircuit ==
    [][/\ \A s \in BreakerSlots :
              StartsRejected(s)
              => /\ heap' = heap
                 /\ retryAttempts' = retryAttempts
                 /\ bc'[s].invoked = 0
                 /\ bc'[s].left = bc'[s].found
       /\ \A s \in BreakerSlots :
              (/\ StartsBreakerCall(s)
               /\ bc'[s].operationName = "op"
               /\ CircuitOf("op").state = "open"
               /\ now - CircuitOf("op").lastFailureTime >= bc'[s].options.resetTimeout)
              => (bc'[s].pc = "awaitOperation" /\ bc'[s].invoked = 1)
       /\ (CircuitOf("op").state = "open" /\ MapHas(retryAttempts', CircuitKey("op")))
          => \/ CircuitOf("op")'.lastFailureTime = CircuitOf("op").lastFailureTime
             \/ \E s \in BreakerSlots :
                    /\ bc[s].pc = "awaitOperation"
                    /\ bc'[s].pc = "thrown"
                    /\ bc'[s].thrown.kind = "ActionError"]_vars

(* a call was rejected a millisecond after another call had been rejected, *)
(* and the circuit still holds the time of the failure that opened it      *)
C31_Witness ==
    /\ Rejected(bc[1])
    /\ bc[1].options.resetTimeout = 2
    /\ bc[1].calledAt = StartTime + 2
    /\ bc[1].found.lastFailureTime = StartTime + 1
    /\ CircuitOf("op") = bc[1].found
    /\ started >= 3

-----------------------------------------------------------------------------
(* the step in which the action of the call of slot s settles *)
ActionSucceeds(s) == bc[s].pc = "awaitOperation" /\ bc'[s].pc = "returned"

ActionFails(s) ==
    bc[s].pc = "awaitOperation" /\ bc'[s].pc = "thrown" /\ bc'[s].thrown.kind = "ActionError"

(* C32: every successful invocation of the action, also one made while the *)
(* circuit is Closed, resets failureCount to 0; hence with calls made one  *)
(* after the other failureCount of a Closed circuit is the number of       *)
(* failing calls since the last success, a Closed circuit opens exactly    *)
(* when the most recent failureThreshold admitted calls all failed, and    *)
(* failures separated by a success do not add up.                          *)
C32_SuccessResetsCount ==
    [][\A s \in BreakerSlots :
          /\ ActionSucceeds(s)
             => /\ CircuitOf(bc[s].operationName)'.failureCount = 0
                /\ CircuitOf(bc[s].operationName)'.state = "closed"
          /\ (ActionFails(s) /\ bc[s].found.state = "closed" /\ runs[bc[s].operationName].valid)
             => LET failed == runs[bc[s].operationName].len + 1
                IN  /\ CircuitOf(bc[s].operationName)'.failureCount = failed
                    /\ CircuitOf(bc[s].operationName)'.state = "open"
                       <=> failed >= bc[s].options.failureThreshold
                    /\ CircuitOf(bc[s].operationName)'.state \in {"open", "closed"}]_vars

(* under failureThreshold 2 a failure, a success made while the circuit    *)
(* was Closed and another failure leave the circuit Closed with            *)
(* failureCount 1                                                          *)
C32_Witness ==
    /\ started = 3
    /\ bc[1].pc = "thrown"
    /\ bc[1].thrown.kind = "ActionError"
    /\ bc[1].options.failureThreshold = 2
    /\ bc[1].found.state = "closed"
    /\ bc[1].found.failureCount = 0
    /\ bc[1].found.lastFailureTime = StartTime
    /\ bc[1].found.lastSuccessTime = StartTime + 1
    /\ CircuitOf("op").state = "closed"
    /\ CircuitOf("op").failureCount = 1

-----------------------------------------------------------------------------
(* C33: when shouldRetry is supplied it is consulted exactly once for      *)
(* every failed attempt of a call, with the error and the number of that   *)
(* attempt and before anything else is decided: every rejection is         *)
(* directly followed by one question to shouldRetry, also the rejection of *)
(* the last attempt maxRetries + 1, and there is no other question; when   *)
(* it is not supplied there is none.                                       *)
C33_ShouldRetryOncePerFailure ==
    \A s \in RetrySlots :
        LET c == rc[s]
        IN  /\ \A i \in DOMAIN c.log :
                   /\ (c.log[i].ev = "reject" /\ c.options.shouldRetry # "absent")
                      => /\ i < Len(c.log)
                         /\ c.log[i + 1].ev = "shouldRetry"
                         /\ c.log[i + 1].attempt = c.log[i].attempt
                         /\ c.log[i + 1].message = c.log[i].message
                   /\ c.log[i].ev = "shouldRetry"
                      => /\ c.options.shouldRetry # "absent"
                         /\ i > 1
                         /\ c.log[i - 1].ev = "reject"
            /\ Len(EventsOf(c, "shouldRetry"))
                   = IF c.options.shouldRetry = "absent" THEN 0 ELSE Len(EventsOf(c, "reject"))

(* shouldRetry was asked about the failure of attempt 2 of a call with     *)
(* maxRetries = 1 and said true; the call failed all the same              *)
C33_Witness ==
    /\ rc[1].pc = "thrown"
    /\ rc[1].thrown.kind = "RetryFailed"
    /\ rc[1].options.maxRetries = 1
    /\ rc[1].log[Len(rc[1].log)] = Event("shouldRetry", 2, "not found", ZeroDelay, "true")
    /\ Len(EventsOf(rc[1], "shouldRetry")) = 2

-----------------------------------------------------------------------------
(* the error message of the attempt of the call, as the action rejected *)
RejectionOf(c, attempt) ==
    LET e == SelectSeq(c.log, LAMBDA x : x.ev = "reject" /\ x.attempt = attempt)
    IN  IF e = <<>> THEN NoMessage ELSE e[1].message

(* the call ended in success, or in the failure raised after the loop *)
EndedInSuccessOrFailure(c) ==
    \/ c.pc = "returned"
    \/ c.pc = "thrown" /\ c.thrown.kind = "RetryFailed"

(* C34: a call that ends in success or in the failure after exhaustion or  *)
(* denial has waited once less than it invoked the action; when onRetry is *)
(* supplied every wait directly follows exactly one settled onRetry call,  *)
(* made with the error of the attempt that just failed, the number of that *)
(* attempt and the delay that is then waited, and when it is not supplied  *)
(* there is no onRetry call.                                               *)
C34_OneWaitPerRetry ==
    \A s \in RetrySlots :
        LET c == rc[s]
        IN  /\ EndedInSuccessOrFailure(c) => Len(Waits(c)) = Len(Invocations(c)) - 1
            /\ Len(EventsOf(c, "onRetry"))
                   = IF c.options.onRetry
                     THEN Len(Waits(c)) + (IF c.pc = "awaitOnRetry" THEN 1 ELSE 0)
                     ELSE 0
            /\ \A i \in DOMAIN c.log :
                   (c.log[i].ev = "wait" /\ c.options.onRetry)
                   => /\ i > 2
                      /\ c.log[i - 1].ev = "onRetrySettled"
                      /\ c.log[i - 2].ev = "onRetry"
                      /\ c.log[i - 2].attempt = c.log[i].attempt
                      /\ c.log[i - 2].message = RejectionOf(c, c.log[i].attempt)
                      /\ c.log[i - 2].delay = c.log[i].delay
            /\ c.pc = "awaitDelay"
               => /\ c.log[Len(c.log)] = Event("wait", c.attempt, NoMessage, c.delay, "")
                  /\ (c.deadline - now) * c.delay[2] = c.delay[1]

(* a call with an onRetry callback succeeded at attempt 3 after waits of 1 *)
(* and 2 ms, each announced to onRetry                                     *)
C34_Witness ==
    /\ rc[1].pc = "returned"
    /\ rc[1].options.onRetry
    /\ Invocations(rc[1]) = <<1, 2, 3>>
    /\ Waits(rc[1]) = <<<<1, 1>>, <<2, 1>>>>
    /\ EventsOf(rc[1], "onRetry")[2] = Event("onRetry", 2, "not found", <<2, 1>>, "")
    /\ now = StartTime + 3

-----------------------------------------------------------------------------
(* the call of slot s has been made and is not over *)
Running(s) == rc[s].pc \in {"awaitOperation", "awaitOnRetry", "awaitDelay"}

(* C35: every call eventually completes, returning or raising, provided    *)
(* every invocation of the action and every onRetry call settles and every *)
(* timer fires: within a call the attempt number only goes up, one at a    *)
(* time, and a call with maxRetries >= -1 makes at most maxRetries + 1     *)
(* invocations and, for maxRetries >= 0, at most maxRetries waits.         *)
C35_CallTerminates ==
    /\ \A s \in RetrySlots : Running(s) ~> Finished(rc[s])
    /\ [][\A s \in RetrySlots :
              /\ (Running(s) /\ rc'[s].attempt # rc[s].attempt)
                 => (rc'[s].attempt = rc[s].attempt + 1 /\ rc[s].pc = "awaitDelay")
              /\ Len(Invocations(rc'[s])) <= rc'[s].options.maxRetries + 1
              /\ Len(Waits(rc'[s])) <= Max(0, rc'[s].options.maxRetries)]_vars

(* a call with maxRetries = 2 has ended after three invocations and two    *)
(* waits                                                                   *)
C35_Witness ==
    /\ Finished(rc[1])
    /\ rc[1].options.maxRetries = 2
    /\ rc[1].options.onRetry
    /\ Len(Invocations(rc[1])) = 3
    /\ Len(Waits(rc[1])) = 2
    /\ started = 2

-----------------------------------------------------------------------------
(* the call of slot s is suspended in its action, and the registry no      *)
(* longer holds the circuit the call looked up: resetStats ran meanwhile   *)
SuspendedOverReset(s) ==
    /\ bc[s].pc = "awaitOperation"
    /\ bc[s].circuit.kind = "object"
    /\ MapGet(retryAttempts, CircuitKey(bc[s].operationName)) # bc[s].circuit

(* C36: if resetStats() runs while a breaker call for a key is suspended   *)
(* in its action, the later success or failure of that call does not       *)
(* change the registry: the Map and the circuits it holds read the same    *)
(* before and after, so the calls that follow see the fresh entry,         *)
(* created Closed with failureCount 0 by the first of them.                *)
C36_ResetDetachesCallInFlight ==
    [][\A s \in BreakerSlots :
          /\ (SuspendedOverReset(s) /\ bc'[s].pc # "awaitOperation")
             => /\ retryAttempts' = retryAttempts
                /\ Snapshot(heap', retryAttempts') = Snapshot(heap, retryAttempts)
          /\ (StartsBreakerCall(s) /\ \E t \in BreakerSlots \ {s} : SuspendedOverReset(t)
                                   /\ ~MapHas(retryAttempts, CircuitKey("op")))
             => /\ bc'[s].found = Circuit("closed", 0, 0, now)
                /\ CircuitOf("op")' = bc'[s].left]_vars

(* the call of slot 1 failed after resetStats and after slot 2 had started *)
(* a call: its circuit is Open with failureCount 1, the circuit of the     *)
(* registry is the fresh one, Closed with failureCount 0                   *)
C36_Witness ==
    /\ bc[1].pc = "thrown"
    /\ bc[1].thrown.kind = "ActionError"
    /\ bc[1].final.state = "open"
    /\ bc[2].pc = "awaitOperation"
    /\ bc[2].circuit # bc[1].circuit
    /\ MapGet(retryAttempts, CircuitKey("op")) = bc[2].circuit
    /\ CircuitOf("op").state = "closed"
    /\ CircuitOf("op").failureCount = 0

-----------------------------------------------------------------------------
(* the step in which the call of slot s ends by raising, with the failure  *)
(* counter of its operation name incremented                               *)
RaisesAndCounts(s) ==
    /\ rc'[s] # rc[s]
    /\ rc'[s].pc = "thrown"
    /\ CounterOf(retryAttempts', rc'[s].operationName)
           = CounterOf(retryAttempts, rc'[s].operationName) + 1

(* C37: whenever a call raises its final failure and increments the        *)
(* failure counter, the action was invoked at least once in that call and  *)
(* the failure wraps the error of the last invocation, for every           *)
(* maxRetries a caller can pass, maxRetries = -1 from                      *)
(* readLocalFile(filePath, 0) included.                                    *)
C37_FailureWrapsLastError ==
    [][\A s \in RetrySlots :
          RaisesAndCounts(s)
          => /\ Len(Invocations(rc'[s])) >= 1
             /\ rc'[s].thrown.kind = "RetryFailed"
             /\ rc'[s].thrown.message = RejectionOf(rc'[s], Len(Invocations(rc'[s])))]_vars

====
